---------------------------- MODULE Spec2Model ----------------------------
(***************************************************************************)
(* A model of the invoice extractor of src/manual.py (InvoiceExtractor).   *)
(*                                                                         *)
(* A Python str is a sequence of one-character strings, so that lower(),   *)
(* strip(), split() and the regular expressions act on characters as they  *)
(* do in the program.  A regular expression is a sequence of elements      *)
(* (quantified character sets, group marks, anchors, alternations) and is  *)
(* matched by backtracking in Python's priority order.                     *)
(***************************************************************************)
EXTENDS Integers, Sequences, FiniteSets, TLC

(***************************************************************************)
(* Characters.                                                             *)
(***************************************************************************)
UpperSeq ==
  <<"A", "B", "C", "D", "E", "F", "G", "H", "I", "J", "K", "L", "M",
    "N", "O", "P", "Q", "R", "S", "T", "U", "V", "W", "X", "Y", "Z">>

LowerSeq ==
  <<"a", "b", "c", "d", "e", "f", "g", "h", "i", "j", "k", "l", "m",
    "n", "o", "p", "q", "r", "s", "t", "u", "v", "w", "x", "y", "z">>

DigitSeq == <<"0", "1", "2", "3", "4", "5", "6", "7", "8", "9">>

Upper == {UpperSeq[i] : i \in 1..Len(UpperSeq)}

Lower == {LowerSeq[i] : i \in 1..Len(LowerSeq)}

Digit == {DigitSeq[i] : i \in 1..Len(DigitSeq)}

UpperHex == {"A", "B", "C", "D", "E", "F"}

LowerHex == {"a", "b", "c", "d", "e", "f"}

\* \s of the re module, on the characters the model's texts are made of
Space == {" ", "\t", "\n", "\r"}

\* \w of the re module (for \b)
WordChar == Upper \cup Lower \cup Digit \cup {"_"}

\* the character U+2013 (an en dash), which the module's strings cannot hold
EnDash == "ndash"

LowerOf == [c \in Upper |-> LowerSeq[CHOOSE i \in 1..Len(UpperSeq) : UpperSeq[i] = c]]

UpperOf == [c \in Lower |-> UpperSeq[CHOOSE i \in 1..Len(LowerSeq) : LowerSeq[i] = c]]

\* str.lower() on one character
LowerChar(c) == IF c \in Upper THEN LowerOf[c] ELSE c

\* str.upper() on one character
UpperChar(c) == IF c \in Lower THEN UpperOf[c] ELSE c

(***************************************************************************)
(* Strings.                                                                *)
(***************************************************************************)
\* str.lower()
StrLower(s) == [i \in 1..Len(s) |-> LowerChar(s[i])]

\* s[i:j] with 0-based offsets, as Python slices
Slice(s, i, j) == SubSeq(s, i + 1, j)

RECURSIVE LStripFrom(_, _)
LStripFrom(s, i) ==
  IF i <= Len(s) /\ s[i] \in Space THEN LStripFrom(s, i + 1) ELSE i

RECURSIVE RStripFrom(_, _)
RStripFrom(s, j) ==
  IF j >= 1 /\ s[j] \in Space THEN RStripFrom(s, j - 1) ELSE j

\* str.strip()
Strip(s) == SubSeq(s, LStripFrom(s, 1), RStripFrom(s, Len(s)))

\* whether w occurs in s at 0-based offset i
OccursAt(s, w, i) ==
  /\ i + Len(w) <= Len(s)
  /\ \A k \in 1..Len(w) : s[i + k] = w[k]

\* w in s
Contains(s, w) == \E i \in 0..Len(s) : OccursAt(s, w, i)

RECURSIVE SplitFrom(_, _, _)
SplitFrom(s, i, cur) ==
  IF i > Len(s) THEN <<cur>>
  ELSE IF s[i] = "\n" THEN <<cur>> \o SplitFrom(s, i + 1, <<>>)
  ELSE SplitFrom(s, i + 1, Append(cur, s[i]))

\* str.split('\n')
SplitLines(s) == SplitFrom(s, 1, <<>>)

RECURSIVE Concat(_)
Concat(ss) == IF ss = <<>> THEN <<>> ELSE Head(ss) \o Concat(Tail(ss))

RECURSIVE JoinWith(_, _)
JoinWith(ss, sep) ==
  IF ss = <<>> THEN <<>>
  ELSE IF Len(ss) = 1 THEN Head(ss)
  ELSE Head(ss) \o sep \o JoinWith(Tail(ss), sep)

(***************************************************************************)
(* Regular expressions.                                                    *)
(***************************************************************************)
\* a character set (negated or not) repeated lo..hi times (hi = -1: no limit)
Quant(cs, neg, lo, hi, lazy) ==
  [t |-> "set", cs |-> cs, neg |-> neg, lo |-> lo, hi |-> hi, lazy |-> lazy]

Rep(cs, lo, hi) == Quant(cs, FALSE, lo, hi, FALSE)

One(cs) == Rep(cs, 1, 1)

Opt(cs) == Rep(cs, 0, 1)

Star(cs) == Rep(cs, 0, -1)

Plus(cs) == Rep(cs, 1, -1)

\* a run of literal characters
Word(w) == [i \in 1..Len(w) |-> One({w[i]})]

Open(g) == [t |-> "open", g |-> g]

Close(g) == [t |-> "close", g |-> g]

\* ^
Bol == [t |-> "bol"]

\* $
Eol == [t |-> "eol"]

\* \b
WordB == [t |-> "wb"]

\* (?:a|b|...)
Alt(alts) == [t |-> "alt", alts |-> alts]

\* a character set with the other case of each of its letters
FoldCase(cs) == cs \cup {LowerChar(c) : c \in cs} \cup {UpperChar(c) : c \in cs}

RECURSIVE IgnoreCase(_)
\* elements that match without regard to case
IgnoreCase(els) ==
  [i \in 1..Len(els) |->
     CASE els[i].t = "set" -> [els[i] EXCEPT !.cs = FoldCase(@)]
       [] els[i].t = "alt" ->
            [els[i] EXCEPT !.alts = [a \in 1..Len(@) |-> IgnoreCase(@[a])]]
       [] OTHER -> els[i]]

\* re.compile: a pattern's elements under the flags re.IGNORECASE (ic) and
\* re.MULTILINE (ml)
Regex(els, ic, ml) == [els |-> IF ic THEN IgnoreCase(els) ELSE els, ml |-> ml]

NoMatch == [ok |-> FALSE]

NoGroups == [g \in 1..4 |-> <<0, 0>>]

\* whether character c is one of element e's
InSet(c, e) == (c \in e.cs) # e.neg

RECURSIVE RunLength(_, _, _, _)
\* how many of s's characters from offset i on are e's, at most e.hi
RunLength(s, i, e, n) ==
  IF (e.hi # -1 /\ n >= e.hi) \/ i + n >= Len(s) THEN n
  ELSE IF InSet(s[i + n + 1], e) THEN RunLength(s, i, e, n + 1)
  ELSE n

AtBol(re, s, i) == i = 0 \/ (re.ml /\ s[i] = "\n")

AtEol(re, s, i) ==
  \/ i = Len(s)
  \/ i = Len(s) - 1 /\ s[Len(s)] = "\n"
  \/ re.ml /\ s[i + 1] = "\n"

AtWordB(s, i) ==
  LET before == i >= 1 /\ s[i] \in WordChar
      after  == i < Len(s) /\ s[i + 1] \in WordChar
  IN  before # after

RECURSIVE MatchFrom(_, _, _, _, _)
RECURSIVE TryCounts(_, _, _, _, _, _, _)
RECURSIVE TryAlts(_, _, _, _, _, _)

\* the match of re's elements k.. at offset i of s that a backtracking matcher
\* finds first, or NoMatch
MatchFrom(re, k, s, i, caps) ==
  IF k > Len(re.els) THEN [ok |-> TRUE, end |-> i, caps |-> caps]
  ELSE LET e == re.els[k] IN
    CASE e.t = "set" ->
           LET most == RunLength(s, i, e, 0) IN
           IF most < e.lo THEN NoMatch
           ELSE TryCounts(re, k, s, i, caps, IF e.lazy THEN e.lo ELSE most, most)
      [] e.t = "open" ->
           MatchFrom(re, k + 1, s, i, [caps EXCEPT ![e.g] = <<i, i>>])
      [] e.t = "close" ->
           MatchFrom(re, k + 1, s, i, [caps EXCEPT ![e.g] = <<caps[e.g][1], i>>])
      [] e.t = "bol" ->
           IF AtBol(re, s, i) THEN MatchFrom(re, k + 1, s, i, caps) ELSE NoMatch
      [] e.t = "eol" ->
           IF AtEol(re, s, i) THEN MatchFrom(re, k + 1, s, i, caps) ELSE NoMatch
      [] e.t = "wb" ->
           IF AtWordB(s, i) THEN MatchFrom(re, k + 1, s, i, caps) ELSE NoMatch
      [] e.t = "alt" -> TryAlts(re, k, s, i, caps, 1)

\* element k taken n times, then the rest; on failure one fewer (greedy) or
\* one more (lazy)
TryCounts(re, k, s, i, caps, n, most) ==
  LET e == re.els[k]
      m == MatchFrom(re, k + 1, s, i + n, caps)
  IN  IF m.ok THEN m
      ELSE IF e.lazy
           THEN IF n + 1 > most THEN NoMatch
                ELSE TryCounts(re, k, s, i, caps, n + 1, most)
           ELSE IF n - 1 < e.lo THEN NoMatch
                ELSE TryCounts(re, k, s, i, caps, n - 1, most)

\* the alternatives of element k in order, each followed by the rest
TryAlts(re, k, s, i, caps, a) ==
  LET e == re.els[k] IN
  IF a > Len(e.alts) THEN NoMatch
  ELSE LET rest == SubSeq(re.els, k + 1, Len(re.els))
           m == MatchFrom([re EXCEPT !.els = e.alts[a] \o rest], 1, s, i, caps)
       IN  IF m.ok THEN m ELSE TryAlts(re, k, s, i, caps, a + 1)

\* re.match(pattern, s)
ReMatch(re, s) ==
  LET m == MatchFrom(re, 1, s, 0, NoGroups)
  IN  IF m.ok THEN [ok |-> TRUE, start |-> 0, end |-> m.end, caps |-> m.caps]
      ELSE NoMatch

RECURSIVE FirstSet(_, _)
\* the element a match of els begins with, if it is a character set that
\* takes a character: the first element that is no group mark
FirstSet(els, k) ==
  IF k > Len(els) THEN [t |-> "none"]
  ELSE IF els[k].t \in {"open", "close"} THEN FirstSet(els, k + 1)
  ELSE IF els[k].t = "set" /\ els[k].lo >= 1 THEN els[k]
  ELSE [t |-> "none"]

\* the offsets from pos on at which a match of re may begin
Candidates(re, s, pos) ==
  LET first == FirstSet(re.els, 1) IN
  IF first.t = "set" THEN {i \in pos..(Len(s) - 1) : InSet(s[i + 1], first)}
  ELSE pos..Len(s)

\* the leftmost match of re in s that begins at offset pos or later
SearchFrom(re, s, pos) ==
  LET begins == {i \in Candidates(re, s, pos) : MatchFrom(re, 1, s, i, NoGroups).ok} IN
  IF begins = {} THEN NoMatch
  ELSE LET i == CHOOSE b \in begins : \A c \in begins : b <= c
           m == MatchFrom(re, 1, s, i, NoGroups)
       IN  [ok |-> TRUE, start |-> i, end |-> m.end, caps |-> m.caps]

\* re.search(pattern, s)
ReSearch(re, s) == SearchFrom(re, s, 0)

\* match.group(g)
Group(s, m, g) == Slice(s, m.caps[g][1], m.caps[g][2])

(***************************************************************************)
(* Values.  Python's None, str, float and int are told apart by a tag, so  *)
(* that any two values can be compared.  A float or int is the decimal     *)
(* m / 10^e, with e = 0 or m not a multiple of 10: equal numbers are equal *)
(* records.  The model's numerals have at most nine significant digits,    *)
(* which a float holds and prints exactly.                                 *)
(***************************************************************************)
None == [k |-> "none"]

Str(s) == [k |-> "str", v |-> s]

RECURSIVE Normalize(_, _)
Normalize(m, e) ==
  IF e > 0 /\ m % 10 = 0 THEN Normalize(m \div 10, e - 1) ELSE [m |-> m, e |-> e]

PyFloat(m, e) == LET n == Normalize(m, e) IN [k |-> "float", m |-> n.m, e |-> n.e]

PyInt(n) == [k |-> "int", m |-> n, e |-> 0]

RECURSIVE Pow10(_)
Pow10(n) == IF n = 0 THEN 1 ELSE 10 * Pow10(n - 1)

\* a < b, for numbers
NumLess(a, b) == a.m * Pow10(b.e) < b.m * Pow10(a.e)

DigitVal(c) == (CHOOSE i \in 1..Len(DigitSeq) : DigitSeq[i] = c) - 1

RECURSIVE DigitsVal(_, _)
\* the number a run of digits denotes, after acc
DigitsVal(ds, acc) ==
  IF ds = <<>> THEN acc ELSE DigitsVal(Tail(ds), 10 * acc + DigitVal(Head(ds)))

RECURSIVE DigitsOf(_)
\* str(n) for n >= 0
DigitsOf(n) ==
  IF n < 10 THEN <<DigitSeq[n + 1]>>
  ELSE Append(DigitsOf(n \div 10), DigitSeq[(n % 10) + 1])

RECURSIVE ZeroPad(_, _)
ZeroPad(ds, width) == IF Len(ds) >= width THEN ds ELSE ZeroPad(<<"0">> \o ds, width)

\* the places of the "." characters of s
Dots(s) == {i \in 1..Len(s) : s[i] = "."}

\* whether float() accepts s, a string of digits and points: one point at
\* most, one digit at least
FloatAccepts(s) ==
  /\ Cardinality(Dots(s)) <= 1
  /\ \E i \in 1..Len(s) : s[i] \in Digit

\* float(s) for such an s
FloatOf(s) ==
  IF Dots(s) = {} THEN PyFloat(DigitsVal(s, 0), 0)
  ELSE LET d == CHOOSE i \in Dots(s) : TRUE
           whole == SubSeq(s, 1, d - 1)
           frac  == SubSeq(s, d + 1, Len(s))
       IN  PyFloat(DigitsVal(whole \o frac, 0), Len(frac))

\* str(x) of a float x >= 0: fixed notation from 0.0001 on, and the
\* exponent notation below it (the model's numbers stay under 1e16)
FloatStr(x) ==
  IF x.e = 0 THEN DigitsOf(x.m) \o <<".", "0">>
  ELSE IF x.m * 10000 >= Pow10(x.e)
  THEN DigitsOf(x.m \div Pow10(x.e)) \o <<".">> \o ZeroPad(DigitsOf(x.m % Pow10(x.e)), x.e)
  ELSE LET ds == DigitsOf(x.m)
           ex == x.e - Len(ds) + 1
       IN  <<Head(ds)>> \o (IF Len(ds) > 1 THEN <<".">> \o Tail(ds) ELSE <<>>)
             \o <<"e", "-">> \o ZeroPad(DigitsOf(ex), 2)

\* re.sub(pattern of one character set, '', s): s without the characters
\* that are not in keep
RECURSIVE KeepOnly(_, _)
KeepOnly(s, keep) ==
  IF s = <<>> THEN <<>>
  ELSE (IF Head(s) \in keep THEN <<Head(s)>> ELSE <<>>) \o KeepOnly(Tail(s), keep)

\* re.sub(r'[^\d\.]', '', s)
Cleaned(s) == KeepOnly(s, Digit \cup {"."})

\* the pattern strings of self.patterns: per field, in declared order (source
\* line: pattern)
PatternSources == [
  invoice_number |-> <<
    \* 17: invoice\s*number\s*:?\s*([A-Fa-f0-9]{8}[0-9]{4})
    Word(<<"i", "n", "v", "o", "i", "c", "e">>) \o <<Star(Space)>> \o Word(<<"n", "u", "m", "b", "e", "r">>) \o <<Star(Space), Opt({":"}), Star(Space), Open(1), Rep(UpperHex \cup LowerHex \cup Digit, 8, 8), Rep(Digit, 4, 4), Close(1)>>,
    \* 18: invoice\s*number\s*:?\s*([A-Za-z0-9\-_]+)
    Word(<<"i", "n", "v", "o", "i", "c", "e">>) \o <<Star(Space)>> \o Word(<<"n", "u", "m", "b", "e", "r">>) \o <<Star(Space), Opt({":"}), Star(Space), Open(1), Plus(Upper \cup Lower \cup Digit \cup {"-", "_"}), Close(1)>>,
    \* 19: invoice\s*#?\s*:?\s*([A-Za-z0-9\-_]+)
    Word(<<"i", "n", "v", "o", "i", "c", "e">>) \o <<Star(Space), Opt({"#"}), Star(Space), Opt({":"}), Star(Space), Open(1), Plus(Upper \cup Lower \cup Digit \cup {"-", "_"}), Close(1)>>,
    \* 20: inv\s*#?\s*:?\s*([A-Za-z0-9\-_]+)
    Word(<<"i", "n", "v">>) \o <<Star(Space), Opt({"#"}), Star(Space), Opt({":"}), Star(Space), Open(1), Plus(Upper \cup Lower \cup Digit \cup {"-", "_"}), Close(1)>>,
    \* 21: #\s*([A-Za-z0-9\-_]+)
    Word(<<"#">>) \o <<Star(Space), Open(1), Plus(Upper \cup Lower \cup Digit \cup {"-", "_"}), Close(1)>>,
    \* 22: doc\s*#?\s*:?\s*([A-Za-z0-9\-_]+)
    Word(<<"d", "o", "c">>) \o <<Star(Space), Opt({"#"}), Star(Space), Opt({":"}), Star(Space), Open(1), Plus(Upper \cup Lower \cup Digit \cup {"-", "_"}), Close(1)>>,
    \* 23: reference\s*#?\s*:?\s*([A-Za-z0-9\-_]+)
    Word(<<"r", "e", "f", "e", "r", "e", "n", "c", "e">>) \o <<Star(Space), Opt({"#"}), Star(Space), Opt({":"}), Star(Space), Open(1), Plus(Upper \cup Lower \cup Digit \cup {"-", "_"}), Close(1)>>,
    \* 24: ([A-Fa-f0-9]{8}[0-9]{4})
    <<Open(1), Rep(UpperHex \cup LowerHex \cup Digit, 8, 8), Rep(Digit, 4, 4), Close(1)>>,
    \* 25: ([A-Za-z0-9]{4}-[A-Za-z0-9]{8}-[A-Za-z0-9]{4})
    <<Open(1), Rep(Upper \cup Lower \cup Digit, 4, 4)>> \o Word(<<"-">>) \o <<Rep(Upper \cup Lower \cup Digit, 8, 8)>> \o Word(<<"-">>) \o <<Rep(Upper \cup Lower \cup Digit, 4, 4), Close(1)>>
  >>,
  date |-> <<
    \* 28: date\s*of\s*issue\s*:?\s*([A-Za-z]{3,9}\s+[0-9]{1,2},?\s+[0-9]{4})
    Word(<<"d", "a", "t", "e">>) \o <<Star(Space)>> \o Word(<<"o", "f">>) \o <<Star(Space)>> \o Word(<<"i", "s", "s", "u", "e">>) \o <<Star(Space), Opt({":"}), Star(Space), Open(1), Rep(Upper \cup Lower, 3, 9), Plus(Space), Rep(Digit, 1, 2), Opt({","}), Plus(Space), Rep(Digit, 4, 4), Close(1)>>,
    \* 29: invoice\s*date\s*:?\s*([A-Za-z]{3,9}\s+[0-9]{1,2},?\s+[0-9]{4})
    Word(<<"i", "n", "v", "o", "i", "c", "e">>) \o <<Star(Space)>> \o Word(<<"d", "a", "t", "e">>) \o <<Star(Space), Opt({":"}), Star(Space), Open(1), Rep(Upper \cup Lower, 3, 9), Plus(Space), Rep(Digit, 1, 2), Opt({","}), Plus(Space), Rep(Digit, 4, 4), Close(1)>>,
    \* 30: date\s*:?\s*([0-9]{1,2}[\/\-\.][0-9]{1,2}[\/\-\.][0-9]{2,4})
    Word(<<"d", "a", "t", "e">>) \o <<Star(Space), Opt({":"}), Star(Space), Open(1), Rep(Digit, 1, 2), One({"/", "-", "."}), Rep(Digit, 1, 2), One({"/", "-", "."}), Rep(Digit, 2, 4), Close(1)>>,
    \* 31: ([A-Za-z]{3,9}\s+[0-9]{1,2},?\s+[0-9]{4})
    <<Open(1), Rep(Upper \cup Lower, 3, 9), Plus(Space), Rep(Digit, 1, 2), Opt({","}), Plus(Space), Rep(Digit, 4, 4), Close(1)>>,
    \* 32: ([0-9]{4}-[0-9]{2}-[0-9]{2})
    <<Open(1), Rep(Digit, 4, 4)>> \o Word(<<"-">>) \o <<Rep(Digit, 2, 2)>> \o Word(<<"-">>) \o <<Rep(Digit, 2, 2), Close(1)>>,
    \* 33: ([0-9]{2}\/[0-9]{2}\/[0-9]{4})
    <<Open(1), Rep(Digit, 2, 2)>> \o Word(<<"/">>) \o <<Rep(Digit, 2, 2)>> \o Word(<<"/">>) \o <<Rep(Digit, 4, 4), Close(1)>>,
    \* 34: ([0-9]{1,2}[\/\-\.][0-9]{1,2}[\/\-\.][0-9]{2,4})
    <<Open(1), Rep(Digit, 1, 2), One({"/", "-", "."}), Rep(Digit, 1, 2), One({"/", "-", "."}), Rep(Digit, 2, 4), Close(1)>>
  >>,
  due_date |-> <<
    \* 37: date\s*due\s*:?\s*([A-Za-z]{3,9}\s+[0-9]{1,2},?\s+[0-9]{4})
    Word(<<"d", "a", "t", "e">>) \o <<Star(Space)>> \o Word(<<"d", "u", "e">>) \o <<Star(Space), Opt({":"}), Star(Space), Open(1), Rep(Upper \cup Lower, 3, 9), Plus(Space), Rep(Digit, 1, 2), Opt({","}), Plus(Space), Rep(Digit, 4, 4), Close(1)>>,
    \* 38: due\s*date\s*:?\s*([A-Za-z]{3,9}\s+[0-9]{1,2},?\s+[0-9]{4})
    Word(<<"d", "u", "e">>) \o <<Star(Space)>> \o Word(<<"d", "a", "t", "e">>) \o <<Star(Space), Opt({":"}), Star(Space), Open(1), Rep(Upper \cup Lower, 3, 9), Plus(Space), Rep(Digit, 1, 2), Opt({","}), Plus(Space), Rep(Digit, 4, 4), Close(1)>>,
    \* 39: due\s*:?\s*([A-Za-z]{3,9}\s+[0-9]{1,2},?\s+[0-9]{4})
    Word(<<"d", "u", "e">>) \o <<Star(Space), Opt({":"}), Star(Space), Open(1), Rep(Upper \cup Lower, 3, 9), Plus(Space), Rep(Digit, 1, 2), Opt({","}), Plus(Space), Rep(Digit, 4, 4), Close(1)>>,
    \* 40: due\s*date\s*:?\s*([0-9]{1,2}[\/\-\.][0-9]{1,2}[\/\-\.][0-9]{2,4})
    Word(<<"d", "u", "e">>) \o <<Star(Space)>> \o Word(<<"d", "a", "t", "e">>) \o <<Star(Space), Opt({":"}), Star(Space), Open(1), Rep(Digit, 1, 2), One({"/", "-", "."}), Rep(Digit, 1, 2), One({"/", "-", "."}), Rep(Digit, 2, 4), Close(1)>>,
    \* 41: payment\s*due\s*:?\s*([0-9]{1,2}[\/\-\.][0-9]{1,2}[\/\-\.][0-9]{2,4})
    Word(<<"p", "a", "y", "m", "e", "n", "t">>) \o <<Star(Space)>> \o Word(<<"d", "u", "e">>) \o <<Star(Space), Opt({":"}), Star(Space), Open(1), Rep(Digit, 1, 2), One({"/", "-", "."}), Rep(Digit, 1, 2), One({"/", "-", "."}), Rep(Digit, 2, 4), Close(1)>>,
    \* 42: due\s*:?\s*([0-9]{1,2}[\/\-\.][0-9]{1,2}[\/\-\.][0-9]{2,4})
    Word(<<"d", "u", "e">>) \o <<Star(Space), Opt({":"}), Star(Space), Open(1), Rep(Digit, 1, 2), One({"/", "-", "."}), Rep(Digit, 1, 2), One({"/", "-", "."}), Rep(Digit, 2, 4), Close(1)>>
  >>,
  total |-> <<
    \* 45: total\s*:?\s*us\$\s*([0-9,]+\.?[0-9]*)
    Word(<<"t", "o", "t", "a", "l">>) \o <<Star(Space), Opt({":"}), Star(Space)>> \o Word(<<"u", "s", "$">>) \o <<Star(Space), Open(1), Plus(Digit \cup {","}), Opt({"."}), Star(Digit), Close(1)>>,
    \* 46: total\s*:?\s*\$\s*([0-9,]+\.?[0-9]*)
    Word(<<"t", "o", "t", "a", "l">>) \o <<Star(Space), Opt({":"}), Star(Space)>> \o Word(<<"$">>) \o <<Star(Space), Open(1), Plus(Digit \cup {","}), Opt({"."}), Star(Digit), Close(1)>>,
    \* 47: total\s*:?\s*([0-9,]+\.?[0-9]*)
    Word(<<"t", "o", "t", "a", "l">>) \o <<Star(Space), Opt({":"}), Star(Space), Open(1), Plus(Digit \cup {","}), Opt({"."}), Star(Digit), Close(1)>>,
    \* 48: amount\s*due\s*:?\s*us\$\s*([0-9,]+\.?[0-9]*)
    Word(<<"a", "m", "o", "u", "n", "t">>) \o <<Star(Space)>> \o Word(<<"d", "u", "e">>) \o <<Star(Space), Opt({":"}), Star(Space)>> \o Word(<<"u", "s", "$">>) \o <<Star(Space), Open(1), Plus(Digit \cup {","}), Opt({"."}), Star(Digit), Close(1)>>,
    \* 49: amount\s*due\s*:?\s*\$\s*([0-9,]+\.?[0-9]*)
    Word(<<"a", "m", "o", "u", "n", "t">>) \o <<Star(Space)>> \o Word(<<"d", "u", "e">>) \o <<Star(Space), Opt({":"}), Star(Space)>> \o Word(<<"$">>) \o <<Star(Space), Open(1), Plus(Digit \cup {","}), Opt({"."}), Star(Digit), Close(1)>>,
    \* 50: balance\s*due\s*:?\s*\$?\s*([0-9,]+\.?[0-9]*)
    Word(<<"b", "a", "l", "a", "n", "c", "e">>) \o <<Star(Space)>> \o Word(<<"d", "u", "e">>) \o <<Star(Space), Opt({":"}), Star(Space), Opt({"$"}), Star(Space), Open(1), Plus(Digit \cup {","}), Opt({"."}), Star(Digit), Close(1)>>,
    \* 51: grand\s*total\s*:?\s*\$?\s*([0-9,]+\.?[0-9]*)
    Word(<<"g", "r", "a", "n", "d">>) \o <<Star(Space)>> \o Word(<<"t", "o", "t", "a", "l">>) \o <<Star(Space), Opt({":"}), Star(Space), Opt({"$"}), Star(Space), Open(1), Plus(Digit \cup {","}), Opt({"."}), Star(Digit), Close(1)>>,
    \* 52: total\s*amount\s*:?\s*\$?\s*([0-9,]+\.?[0-9]*)
    Word(<<"t", "o", "t", "a", "l">>) \o <<Star(Space)>> \o Word(<<"a", "m", "o", "u", "n", "t">>) \o <<Star(Space), Opt({":"}), Star(Space), Opt({"$"}), Star(Space), Open(1), Plus(Digit \cup {","}), Opt({"."}), Star(Digit), Close(1)>>,
    \* 53: net\s*amount\s*:?\s*\$?\s*([0-9,]+\.?[0-9]*)
    Word(<<"n", "e", "t">>) \o <<Star(Space)>> \o Word(<<"a", "m", "o", "u", "n", "t">>) \o <<Star(Space), Opt({":"}), Star(Space), Opt({"$"}), Star(Space), Open(1), Plus(Digit \cup {","}), Opt({"."}), Star(Digit), Close(1)>>
  >>,
  subtotal |-> <<
    \* 56: subtotal\s*:?\s*us\$\s*([0-9,]+\.?[0-9]*)
    Word(<<"s", "u", "b", "t", "o", "t", "a", "l">>) \o <<Star(Space), Opt({":"}), Star(Space)>> \o Word(<<"u", "s", "$">>) \o <<Star(Space), Open(1), Plus(Digit \cup {","}), Opt({"."}), Star(Digit), Close(1)>>,
    \* 57: subtotal\s*:?\s*\$\s*([0-9,]+\.?[0-9]*)
    Word(<<"s", "u", "b", "t", "o", "t", "a", "l">>) \o <<Star(Space), Opt({":"}), Star(Space)>> \o Word(<<"$">>) \o <<Star(Space), Open(1), Plus(Digit \cup {","}), Opt({"."}), Star(Digit), Close(1)>>,
    \* 58: sub\s*total\s*:?\s*us\$\s*([0-9,]+\.?[0-9]*)
    Word(<<"s", "u", "b">>) \o <<Star(Space)>> \o Word(<<"t", "o", "t", "a", "l">>) \o <<Star(Space), Opt({":"}), Star(Space)>> \o Word(<<"u", "s", "$">>) \o <<Star(Space), Open(1), Plus(Digit \cup {","}), Opt({"."}), Star(Digit), Close(1)>>,
    \* 59: sub\s*total\s*:?\s*\$\s*([0-9,]+\.?[0-9]*)
    Word(<<"s", "u", "b">>) \o <<Star(Space)>> \o Word(<<"t", "o", "t", "a", "l">>) \o <<Star(Space), Opt({":"}), Star(Space)>> \o Word(<<"$">>) \o <<Star(Space), Open(1), Plus(Digit \cup {","}), Opt({"."}), Star(Digit), Close(1)>>,
    \* 60: sub-total\s*:?\s*\$?\s*([0-9,]+\.?[0-9]*)
    Word(<<"s", "u", "b", "-", "t", "o", "t", "a", "l">>) \o <<Star(Space), Opt({":"}), Star(Space), Opt({"$"}), Star(Space), Open(1), Plus(Digit \cup {","}), Opt({"."}), Star(Digit), Close(1)>>
  >>,
  tax |-> <<
    \* 63: tax\s*:?\s*us\$\s*([0-9,]+\.?[0-9]*)
    Word(<<"t", "a", "x">>) \o <<Star(Space), Opt({":"}), Star(Space)>> \o Word(<<"u", "s", "$">>) \o <<Star(Space), Open(1), Plus(Digit \cup {","}), Opt({"."}), Star(Digit), Close(1)>>,
    \* 64: tax\s*:?\s*\$\s*([0-9,]+\.?[0-9]*)
    Word(<<"t", "a", "x">>) \o <<Star(Space), Opt({":"}), Star(Space)>> \o Word(<<"$">>) \o <<Star(Space), Open(1), Plus(Digit \cup {","}), Opt({"."}), Star(Digit), Close(1)>>,
    \* 65: sales\s*tax\s*:?\s*\$?\s*([0-9,]+\.?[0-9]*)
    Word(<<"s", "a", "l", "e", "s">>) \o <<Star(Space)>> \o Word(<<"t", "a", "x">>) \o <<Star(Space), Opt({":"}), Star(Space), Opt({"$"}), Star(Space), Open(1), Plus(Digit \cup {","}), Opt({"."}), Star(Digit), Close(1)>>,
    \* 66: vat\s*:?\s*\$?\s*([0-9,]+\.?[0-9]*)
    Word(<<"v", "a", "t">>) \o <<Star(Space), Opt({":"}), Star(Space), Opt({"$"}), Star(Space), Open(1), Plus(Digit \cup {","}), Opt({"."}), Star(Digit), Close(1)>>,
    \* 67: gst\s*:?\s*\$?\s*([0-9,]+\.?[0-9]*)
    Word(<<"g", "s", "t">>) \o <<Star(Space), Opt({":"}), Star(Space), Opt({"$"}), Star(Space), Open(1), Plus(Digit \cup {","}), Opt({"."}), Star(Digit), Close(1)>>,
    \* 68: hst\s*:?\s*\$?\s*([0-9,]+\.?[0-9]*)
    Word(<<"h", "s", "t">>) \o <<Star(Space), Opt({":"}), Star(Space), Opt({"$"}), Star(Space), Open(1), Plus(Digit \cup {","}), Opt({"."}), Star(Digit), Close(1)>>
  >>,
  vendor_name |-> <<>>,
  customer_name |-> <<>>
]

\* self.patterns, each pattern as re.search gets it from extract_using_patterns:
\* with the flags re.IGNORECASE | re.MULTILINE
Patterns ==
  [f \in DOMAIN PatternSources |->
     [i \in 1..Len(PatternSources[f]) |-> Regex(PatternSources[f][i], TRUE, TRUE)]]

\* the flags a list of patterns is searched with
Compiled(sources, ic, ml) == [i \in 1..Len(sources) |-> Regex(sources[i], ic, ml)]

\* the patterns of _extract_invoice_number_alternative
InvoiceNumberAltSources == <<
  \* 164: invoice\s*number\s*([A-Fa-f0-9]{8}[0-9]{4})
  Word(<<"i", "n", "v", "o", "i", "c", "e">>) \o <<Star(Space)>> \o Word(<<"n", "u", "m", "b", "e", "r">>) \o <<Star(Space), Open(1), Rep(UpperHex \cup LowerHex \cup Digit, 8, 8), Rep(Digit, 4, 4), Close(1)>>,
  \* 165: ([A-Fa-f0-9]{8}[0-9]{4})
  <<Open(1), Rep(UpperHex \cup LowerHex \cup Digit, 8, 8), Rep(Digit, 4, 4), Close(1)>>,
  \* 166: ([A-Za-z0-9]+-[A-Fa-f0-9]{8}-[0-9]{4})
  <<Open(1), Plus(Upper \cup Lower \cup Digit)>> \o Word(<<"-">>) \o <<Rep(UpperHex \cup LowerHex \cup Digit, 8, 8)>> \o Word(<<"-">>) \o <<Rep(Digit, 4, 4), Close(1)>>,
  \* 167: ([A-Fa-f0-9]{8}-[0-9]{4})
  <<Open(1), Rep(UpperHex \cup LowerHex \cup Digit, 8, 8)>> \o Word(<<"-">>) \o <<Rep(Digit, 4, 4), Close(1)>>,
  \* 168: (INV[A-Za-z0-9\-_]+)
  <<Open(1)>> \o Word(<<"I", "N", "V">>) \o <<Plus(Upper \cup Lower \cup Digit \cup {"-", "_"}), Close(1)>>,
  \* 169: ([0-9]{4,})
  <<Open(1), Rep(Digit, 4, -1), Close(1)>>
>>

InvoiceNumberAltPatterns == Compiled(InvoiceNumberAltSources, TRUE, FALSE)

\* the patterns of _extract_total_alternative
TotalAltSources == <<
  \* 263: \$\s*([0-9,]+\.?[0-9]*)
  Word(<<"$">>) \o <<Star(Space), Open(1), Plus(Digit \cup {","}), Opt({"."}), Star(Digit), Close(1)>>,
  \* 264: ([0-9,]+\.?[0-9]*)\s*\$
  <<Open(1), Plus(Digit \cup {","}), Opt({"."}), Star(Digit), Close(1), Star(Space)>> \o Word(<<"$">>),
  \* 265: ([0-9,]+\.[0-9]{2})
  <<Open(1), Plus(Digit \cup {","})>> \o Word(<<".">>) \o <<Rep(Digit, 2, 2), Close(1)>>
>>

TotalAltPatterns == Compiled(TotalAltSources, FALSE, FALSE)

\* po_patterns
PoSources == <<
  \* 510: p\.?o\.?\s*#?\s*:?\s*([A-Za-z0-9\-_]+)
  Word(<<"p">>) \o <<Opt({"."})>> \o Word(<<"o">>) \o <<Opt({"."}), Star(Space), Opt({"#"}), Star(Space), Opt({":"}), Star(Space), Open(1), Plus(Upper \cup Lower \cup Digit \cup {"-", "_"}), Close(1)>>,
  \* 511: purchase\s*order\s*#?\s*:?\s*([A-Za-z0-9\-_]+)
  Word(<<"p", "u", "r", "c", "h", "a", "s", "e">>) \o <<Star(Space)>> \o Word(<<"o", "r", "d", "e", "r">>) \o <<Star(Space), Opt({"#"}), Star(Space), Opt({":"}), Star(Space), Open(1), Plus(Upper \cup Lower \cup Digit \cup {"-", "_"}), Close(1)>>,
  \* 512: order\s*#?\s*:?\s*([A-Za-z0-9\-_]+)
  Word(<<"o", "r", "d", "e", "r">>) \o <<Star(Space), Opt({"#"}), Star(Space), Opt({":"}), Star(Space), Open(1), Plus(Upper \cup Lower \cup Digit \cup {"-", "_"}), Close(1)>>
>>

PoPatterns == Compiled(PoSources, TRUE, FALSE)

\* terms_patterns
TermsSources == <<
  \* 525: terms?\s*:?\s*([A-Za-z0-9\s\-,]+)
  Word(<<"t", "e", "r", "m">>) \o <<Opt({"s"}), Star(Space), Opt({":"}), Star(Space), Open(1), Plus(Upper \cup Lower \cup Digit \cup Space \cup {"-", ","}), Close(1)>>,
  \* 526: payment\s*terms?\s*:?\s*([A-Za-z0-9\s\-,]+)
  Word(<<"p", "a", "y", "m", "e", "n", "t">>) \o <<Star(Space)>> \o Word(<<"t", "e", "r", "m">>) \o <<Opt({"s"}), Star(Space), Opt({":"}), Star(Space), Open(1), Plus(Upper \cup Lower \cup Digit \cup Space \cup {"-", ","}), Close(1)>>,
  \* 527: net\s*(\d+)
  Word(<<"n", "e", "t">>) \o <<Star(Space), Open(1), Plus(Digit), Close(1)>>
>>

TermsPatterns == Compiled(TermsSources, TRUE, FALSE)

\* the anchor line of _extract_vendor_name_alternative (190: ^(.*?)\s+bill\s+to)
VendorAnchorPattern ==
  Regex(<<Bol, Open(1), Quant({"\n"}, TRUE, 0, -1, TRUE), Close(1), Plus(Space)>> \o Word(<<"b", "i", "l", "l">>) \o <<Plus(Space)>> \o Word(<<"t", "o">>),
        TRUE, FALSE)

\* a line of letters and white space (195: ^[A-Za-z\s]+$)
LettersOnlyPattern ==
  Regex(<<Bol, Plus(Upper \cup Lower \cup Space), Eol>>,
        FALSE, FALSE)

\* the vendor token (204: (khan academy))
KhanAcademyPattern ==
  Regex(<<Open(1)>> \o Word(<<"k", "h", "a", "n", " ", "a", "c", "a", "d", "e", "m", "y">>) \o <<Close(1)>>,
        TRUE, FALSE)

\* po_box_pattern (248: po\s+box\s+\d+\s+([A-Za-z\s]+?)(?:\s+\d+\s+[A-Za-z\s]+|$))
PoBoxNamePattern ==
  Regex(Word(<<"p", "o">>) \o <<Plus(Space)>> \o Word(<<"b", "o", "x">>) \o <<Plus(Space), Plus(Digit), Plus(Space), Open(1), Quant(Upper \cup Lower \cup Space, FALSE, 1, -1, TRUE), Close(1), Alt(<<<<Plus(Space), Plus(Digit), Plus(Space), Plus(Upper \cup Lower \cup Space)>>, <<Eol>>>>)>>,
        FALSE, TRUE)

\* item_pattern (367: ^([A-Za-z\s]+)\s+(\d+)\s+(US\$[0-9,]+\.?[0-9]*)\s+(US\$[0-9,]+\.?[0-9]*)$)
ItemPattern ==
  Regex(<<Bol, Open(1), Plus(Upper \cup Lower \cup Space), Close(1), Plus(Space), Open(2), Plus(Digit), Close(2), Plus(Space), Open(3)>> \o Word(<<"U", "S", "$">>) \o <<Plus(Digit \cup {","}), Opt({"."}), Star(Digit), Close(3), Plus(Space), Open(4)>> \o Word(<<"U", "S", "$">>) \o <<Plus(Digit \cup {","}), Opt({"."}), Star(Digit), Close(4), Eol>>,
        FALSE, FALSE)

\* date_pattern (386: ([A-Za-z]{3}\s+\d{1,2},\s+\d{4})\s*[–-]\s*(\d{1,2}\s+[A-Za-z]{3}\s+\d{4}))
DateRangePattern ==
  Regex(<<Open(1), Rep(Upper \cup Lower, 3, 3), Plus(Space), Rep(Digit, 1, 2)>> \o Word(<<",">>) \o <<Plus(Space), Rep(Digit, 4, 4), Close(1), Star(Space), One({EnDash, "-"}), Star(Space), Open(2), Rep(Digit, 1, 2), Plus(Space), Rep(Upper \cup Lower, 3, 3), Plus(Space), Rep(Digit, 4, 4), Close(2)>>,
        FALSE, FALSE)

\* the email pattern of extract_vendor_info (408: \b[A-Za-z0-9._%+-]+@[A-Za-z0-9.-]+\.[A-Z|a-z]{2,}\b)
EmailPattern ==
  Regex(<<WordB, Plus(Upper \cup Lower \cup Digit \cup {".", "_", "%", "+", "-"})>> \o Word(<<"@">>) \o <<Plus(Upper \cup Lower \cup Digit \cup {".", "-"})>> \o Word(<<".">>) \o <<Rep(Upper \cup Lower \cup {"|"}, 2, -1), WordB>>,
        FALSE, FALSE)

\* the phone pattern of extract_vendor_info (418: (\(?\d{3}\)?[-.\s]?\d{3}[-.\s]?\d{4}))
PhonePattern ==
  Regex(<<Open(1), Opt({"("}), Rep(Digit, 3, 3), Opt({")"}), Opt(Space \cup {"-", "."}), Rep(Digit, 3, 3), Opt(Space \cup {"-", "."}), Rep(Digit, 4, 4), Close(1)>>,
        FALSE, FALSE)

\* the address pattern of extract_vendor_info (423: po\s+box\s+\d+|mountain\s+view|california)
AddressPattern ==
  Regex(<<Alt(<<Word(<<"p", "o">>) \o <<Plus(Space)>> \o Word(<<"b", "o", "x">>) \o <<Plus(Space), Plus(Digit)>>, Word(<<"m", "o", "u", "n", "t", "a", "i", "n">>) \o <<Plus(Space)>> \o Word(<<"v", "i", "e", "w">>), Word(<<"c", "a", "l", "i", "f", "o", "r", "n", "i", "a">>)>>)>>,
        TRUE, FALSE)

\* the invoice number of a file name (444: ([A-Fa-f0-9]{8}-[0-9]{4}))
FilenameInvoicePattern ==
  Regex(<<Open(1), Rep(UpperHex \cup LowerHex \cup Digit, 8, 8)>> \o Word(<<"-">>) \o <<Rep(Digit, 4, 4), Close(1)>>,
        FALSE, FALSE)

(***************************************************************************)
(* The field extractor.                                                    *)
(***************************************************************************)
RECURSIVE LastMatch(_, _, _)
\* the loop without its break: the last pattern that re.search finds in s
LastMatch(ps, i, s) ==
  IF i > Len(ps) THEN [ok |-> FALSE]
  ELSE LET m == ReSearch(ps[i], s)
           later == LastMatch(ps, i + 1, s)
       IN  IF later.ok THEN later
           ELSE IF m.ok THEN [ok |-> TRUE, i |-> i, v |-> Group(s, m, 1)]
           ELSE later

RECURSIVE FirstMatch(_, _, _)
\* the loop of extract_using_patterns from pattern i on: the first pattern
\* that re.search finds in s, and its group 1
FirstMatch(ps, i, s) ==
  IF i > Len(ps) THEN [ok |-> FALSE]
  ELSE LET m == ReSearch(ps[i], s)
       IN  IF m.ok THEN [ok |-> TRUE, i |-> i, v |-> Group(s, m, 1)]
           ELSE FirstMatch(ps, i + 1, s)

RECURSIVE FirstGroup(_, _, _)
\* the loop of _extract_invoice_number_alternative
FirstGroup(ps, i, s) ==
  IF i > Len(ps) THEN None
  ELSE LET m == ReSearch(ps[i], s)
       IN  IF m.ok THEN Str(Group(s, m, 1)) ELSE FirstGroup(ps, i + 1, s)

extract_invoice_number_alternative(text) == FirstGroup(InvoiceNumberAltPatterns, 1, text)

RECURSIVE Words(_, _, _)
\* str.split(): the runs of characters that are not white space
Words(s, i, cur) ==
  IF i > Len(s) THEN (IF cur = <<>> THEN <<>> ELSE <<cur>>)
  ELSE IF s[i] \in Space
       THEN (IF cur = <<>> THEN <<>> ELSE <<cur>>) \o Words(s, i + 1, <<>>)
       ELSE Words(s, i + 1, Append(cur, s[i]))

Letter == Upper \cup Lower

\* str.capitalize()
Capitalize(w) == [i \in 1..Len(w) |-> IF i = 1 THEN UpperChar(w[i]) ELSE LowerChar(w[i])]

\* str.title()
Title(s) ==
  [i \in 1..Len(s) |->
     IF i > 1 /\ s[i - 1] \in Letter THEN LowerChar(s[i]) ELSE UpperChar(s[i])]

RECURSIVE AnchorScan(_, _)
\* the anchor lines alone, from line i on
AnchorScan(lines, i) ==
  IF i > Len(lines) THEN None
  ELSE LET line == Strip(lines[i])
           low  == StrLower(line)
           m    == ReSearch(VendorAnchorPattern, line)
       IN  IF /\ line # <<>>
              /\ Contains(low, <<"k", "h", "a", "n", " ", "a", "c", "a", "d", "e", "m", "y">>)
              /\ Contains(low, <<"b", "i", "l", "l", " ", "t", "o">>)
              /\ m.ok
           THEN Str(Strip(Group(line, m, 1)))
           ELSE AnchorScan(lines, i + 1)

\* the first loop as two loops: the anchor lines first, then the lines of
\* letters
VendorScanAnchorsFirst(lines, i) ==
  IF AnchorScan(lines, i) # None THEN AnchorScan(lines, i)
  ELSE LET standalone == {j \in i..Len(lines) :
                            /\ ReMatch(LettersOnlyPattern, Strip(lines[j])).ok
                            /\ Contains(StrLower(lines[j]), <<"k", "h", "a", "n">>)}
       IN  IF standalone = {} THEN None
           ELSE Str(Strip(lines[CHOOSE j \in standalone : \A k \in standalone : j <= k]))

RECURSIVE VendorScan(_, _)
\* the first loop of _extract_vendor_name_alternative, from line i on
VendorScan(lines, i) ==
  IF i > Len(lines) THEN None
  ELSE LET line == Strip(lines[i])
           low  == StrLower(line)
       IN  IF line # <<>> /\ Contains(low, <<"k", "h", "a", "n", " ", "a", "c", "a", "d", "e", "m", "y">>) /\ Contains(low, <<"b", "i", "l", "l", " ", "t", "o">>)
           THEN LET m == ReSearch(VendorAnchorPattern, line)
                IN  IF m.ok THEN Str(Strip(Group(line, m, 1)))
                    ELSE VendorScan(lines, i + 1)
           ELSE IF /\ line # <<>>
                   /\ ReMatch(LettersOnlyPattern, line).ok
                   /\ Contains(low, <<"k", "h", "a", "n">>)
           THEN Str(line)
           ELSE VendorScan(lines, i + 1)

RECURSIVE VendorLoose(_, _)
\* the second loop of _extract_vendor_name_alternative, from line i on
VendorLoose(lines, i) ==
  IF i > Len(lines) THEN None
  ELSE IF Contains(StrLower(lines[i]), <<"k", "h", "a", "n", " ", "a", "c", "a", "d", "e", "m", "y">>)
       THEN LET m == ReSearch(KhanAcademyPattern, lines[i])
            IN  IF m.ok THEN Str(Title(Group(lines[i], m, 1)))
                ELSE VendorLoose(lines, i + 1)
       ELSE VendorLoose(lines, i + 1)

extract_vendor_name_alternative(text) ==
  LET lines == SplitLines(text)
      found == VendorScan(lines, 1)
  IN  IF found # None THEN found ELSE VendorLoose(lines, 1)

\* the keywords of an address or contact line
AddressKeywords == {
  <<"p", "o", " ", "b", "o", "x">>, <<"m", "o", "u", "n", "t", "a", "i", "n", " ", "v", "i", "e", "w">>, <<"c", "a", "l", "i", "f", "o", "r", "n", "i", "a">>, <<"u", "n", "i", "t", "e", "d", " ", "s", "t", "a", "t", "e", "s">>,
  <<"@">>, <<".", "c", "o", "m">>, <<".", "o", "r", "g">>, <<"h", "o", "n", "o", "r", "s", " ", "c", "o", "l", "l", "e", "g", "e">>, <<"w", "e", "s", "t", " ", "l", "a", "f", "a", "y", "e", "t", "t", "e">>, <<"i", "n", "d", "i", "a", "n", "a">>
}

RECURSIVE CustomerScan(_, _, _)
\* the loop of _extract_customer_name_alternative, from line i on
CustomerScan(lines, i, bill_to_found) ==
  IF i > Len(lines) THEN None
  ELSE LET line == Strip(lines[i])
           low  == StrLower(line)
       IN  IF Contains(low, <<"b", "i", "l", "l", " ", "t", "o">>) THEN CustomerScan(lines, i + 1, TRUE)
           ELSE IF bill_to_found /\ line # <<>>
           THEN IF \E kw \in AddressKeywords : Contains(low, kw)
                THEN CustomerScan(lines, i + 1, bill_to_found)
                ELSE IF /\ ReMatch(LettersOnlyPattern, line).ok
                        /\ Len(Words(line, 1, <<>>)) >= 2
                THEN Str(line)
                ELSE CustomerScan(lines, i + 1, bill_to_found)
           ELSE CustomerScan(lines, i + 1, bill_to_found)

extract_customer_name_alternative(text) ==
  LET found == CustomerScan(SplitLines(text), 1, FALSE) IN
  IF found # None THEN found
  ELSE LET low == StrLower(text)
           m   == ReSearch(PoBoxNamePattern, low)
       IN  IF m.ok
           THEN LET ws == Words(Strip(Group(low, m, 1)), 1, <<>>)
                IN  Str(JoinWith([i \in 1..Len(ws) |-> Capitalize(ws[i])], <<" ">>))
           ELSE None

RECURSIVE FindAllFrom(_, _, _)
\* re.findall of a pattern with one group: group 1 of each match, left to
\* right, each search starting where the match before it ended
FindAllFrom(re, s, pos) ==
  LET m == SearchFrom(re, s, pos) IN
  IF ~m.ok THEN <<>>
  ELSE <<Group(s, m, 1)>>
         \o FindAllFrom(re, s, IF m.end = m.start THEN m.end + 1 ELSE m.end)

FindAll(re, s) == FindAllFrom(re, s, 0)

RECURSIVE PositiveAmounts(_)
\* of the matched strings, those that float() accepts once cleaned and that
\* are > 0, as numbers
PositiveAmounts(ms) ==
  IF ms = <<>> THEN <<>>
  ELSE LET cleaned == Cleaned(Head(ms))
           rest    == PositiveAmounts(Tail(ms))
       IN  IF FloatAccepts(cleaned) /\ FloatOf(cleaned).m > 0
           THEN <<FloatOf(cleaned)>> \o rest
           ELSE rest

\* the list amounts of _extract_total_alternative
TotalCandidates(text) ==
  Concat([p \in 1..Len(TotalAltPatterns) |->
            PositiveAmounts(FindAll(TotalAltPatterns[p], text))])

\* min(amounts)
MinOf(amounts) ==
  amounts[CHOOSE i \in 1..Len(amounts) :
            \A j \in 1..Len(amounts) : ~NumLess(amounts[j], amounts[i])]

\* max(amounts)
MaxOf(amounts) ==
  amounts[CHOOSE i \in 1..Len(amounts) :
            \A j \in 1..Len(amounts) : ~NumLess(amounts[i], amounts[j])]

extract_total_alternative(text) ==
  LET amounts == TotalCandidates(text) IN
  IF amounts # <<>> THEN Str(FloatStr(MaxOf(amounts))) ELSE None

\* extract_using_patterns(text, field), with self.patterns = patterns
extract_using_patterns(patterns, text, field) ==
  IF field \notin DOMAIN patterns THEN None
  ELSE LET text_lower == StrLower(text)
           hit == FirstMatch(patterns[field], 1, text_lower)
       IN  IF hit.ok THEN Str(Strip(hit.v))
           ELSE CASE field = "invoice_number" -> extract_invoice_number_alternative(text)
                  [] field = "total" -> extract_total_alternative(text)
                  [] field = "vendor_name" -> extract_vendor_name_alternative(text)
                  [] field = "customer_name" -> extract_customer_name_alternative(text)
                  [] OTHER -> None

(***************************************************************************)
(* The normalizer.                                                         *)
(***************************************************************************)
\* what dateutil's parser makes of a date string: the strings it parses,
\* each with the date strftime('%Y-%m-%d') prints; any other string of the
\* model is one it rejects
DateutilParses == {
  <<<<"M", "a", "r", "c", "h", " ", "3", ",", " ", "2", "0", "2", "4">>, <<"2", "0", "2", "4", "-", "0", "3", "-", "0", "3">>>>,
  <<<<"m", "a", "r", "c", "h", " ", "3", ",", " ", "2", "0", "2", "4">>, <<"2", "0", "2", "4", "-", "0", "3", "-", "0", "3">>>>,
  <<<<"a", "p", "r", "i", "l", " ", "2", ",", " ", "2", "0", "2", "4">>, <<"2", "0", "2", "4", "-", "0", "4", "-", "0", "2">>>>,
  <<<<"0", "3", "/", "0", "3", "/", "2", "0", "2", "4">>, <<"2", "0", "2", "4", "-", "0", "3", "-", "0", "3">>>>,
  <<<<"2", "0", "2", "4", "-", "0", "3", "-", "0", "3">>, <<"2", "0", "2", "4", "-", "0", "3", "-", "0", "3">>>>
}

DateParsed(s) == \E d \in DateutilParses : d[1] = s

DateIso(s) == (CHOOSE d \in DateutilParses : d[1] = s)[2]

\* an exception on its way out of an expression
Raises(name) == [k |-> "raise", exception |-> name]

Raised(value) == value.k = "raise"

\* date_parser.parse(s).strftime('%Y-%m-%d')
parsed_strftime(s) ==
  IF DateParsed(s) THEN Str(DateIso(s)) ELSE Raises("ParserError")

\* float(s)
float(s) == IF FloatAccepts(s) THEN FloatOf(s) ELSE Raises("ValueError")

\* parse_date(date_string): the bare except returns the string as it came
parse_date(date_string) ==
  IF date_string = None \/ date_string.v = <<>> THEN None
  ELSE LET iso == parsed_strftime(date_string.v)
       IN  IF Raised(iso) THEN date_string ELSE iso

\* parse_amount without its try: the exception of float() goes to the caller
parse_amount_without_try(amount_string) ==
  IF amount_string = None \/ amount_string.v = <<>> THEN None
  ELSE float(Cleaned(amount_string.v))

\* parse_amount(amount_string): the bare except returns the string as it came
parse_amount(amount_string) ==
  IF amount_string = None \/ amount_string.v = <<>> THEN None
  ELSE LET amount == float(Cleaned(amount_string.v))
       IN  IF Raised(amount) THEN amount_string ELSE amount

(***************************************************************************)
(* The line-item reconstructor.  A dict with fixed keys is a function from *)
(* its keys; a table row, whose keys are column headers, is the sequence   *)
(* of its <<key, value>> pairs in column order.                            *)
(***************************************************************************)
EmptyDict == [key \in {} |-> None]

\* d with d[key] = value
DictSet(d, key, value) == [x \in DOMAIN d \cup {key} |-> IF x = key THEN value ELSE d[x]]

\* whether a key or a cell is falsy: None or ''
Falsy(v) == v = None \/ v.v = <<>>

\* any(word in key_lower for word in words)
AnyIn(key_lower, words) == \E w \in words : Contains(key_lower, w)

DescriptionWords == {<<"d", "e", "s", "c", "r", "i", "p", "t", "i", "o", "n">>, <<"i", "t", "e", "m">>, <<"p", "r", "o", "d", "u", "c", "t">>, <<"s", "e", "r", "v", "i", "c", "e">>}

QuantityWords == {<<"q", "t", "y">>, <<"q", "u", "a", "n", "t", "i", "t", "y">>, <<"q", "n", "t">>}

PriceWords == {<<"p", "r", "i", "c", "e">>, <<"r", "a", "t", "e">>, <<"u", "n", "i", "t">>}

AmountWords == {<<"a", "m", "o", "u", "n", "t">>, <<"t", "o", "t", "a", "l">>, <<"s", "u", "m">>}

\* the field of a line item that a column header stands for, or "" for none
ColumnField(key_lower) ==
  IF AnyIn(key_lower, DescriptionWords) THEN "description"
  ELSE IF AnyIn(key_lower, QuantityWords) THEN "quantity"
  ELSE IF AnyIn(key_lower, PriceWords) THEN "unit_price"
  ELSE IF AnyIn(key_lower, AmountWords) THEN "total_amount"
  ELSE ""

RECURSIVE RowItem(_, _, _)
\* the loop over record.items() from column c on: the item of one row
RowItem(record, c, item) ==
  IF c > Len(record) THEN item
  ELSE LET key   == record[c][1]
           value == record[c][2]
       IN  IF Falsy(key) \/ Falsy(value) THEN RowItem(record, c + 1, item)
           ELSE LET field     == ColumnField(StrLower(key.v))
                    value_str == Str(Strip(value.v))
                IN  IF field = "" THEN RowItem(record, c + 1, item)
                    ELSE IF field = "description"
                    THEN RowItem(record, c + 1, DictSet(item, field, value_str))
                    ELSE RowItem(record, c + 1, DictSet(item, field, parse_amount(value_str)))

\* whether a row's item is kept, were one key enough
KeepAnyItem(item) == Cardinality(DOMAIN item) > 0

\* whether a row's item is kept: it has more than one key
KeepItem(item) == Cardinality(DOMAIN item) > 1

RECURSIVE RowsItems(_, _)
\* the loop over df_records from row r on
RowsItems(df_records, r) ==
  IF r > Len(df_records) THEN <<>>
  ELSE LET item == RowItem(df_records[r], 1, EmptyDict)
       IN  (IF df_records[r] # <<>> /\ KeepItem(item) THEN <<item>> ELSE <<>>)
             \o RowsItems(df_records, r + 1)

\* the line items of the tables
TableItems(tables) == Concat([t \in 1..Len(tables) |-> RowsItems(tables[t].data, 1)])

RECURSIVE TextItemsSearchingText(_, _)
\* the loop with the date range searched in the whole text, not in the line
\* after the item
TextItemsSearchingText(lines, i) ==
  IF i > Len(lines) THEN <<>>
  ELSE LET line == Strip(lines[i])
           m    == ReMatch(ItemPattern, line)
       IN  IF ~m.ok THEN TextItemsSearchingText(lines, i + 1)
           ELSE LET item == [description  |-> Str(Strip(Group(line, m, 1))),
                             quantity     |-> PyInt(DigitsVal(Group(line, m, 2), 0)),
                             unit_price   |-> parse_amount(Str(Group(line, m, 3))),
                             total_amount |-> parse_amount(Str(Group(line, m, 4)))]
                    whole == JoinWith(lines, <<"\n">>)
                    dm == ReSearch(DateRangePattern, whole)
                IN  (IF dm.ok
                     THEN <<DictSet(item, "service_period",
                                    Str(Group(whole, dm, 1) \o <<" ", "-", " ">>
                                          \o Group(whole, dm, 2)))>>
                     ELSE <<item>>)
                      \o TextItemsSearchingText(lines, i + 1)

RECURSIVE TextItems(_, _)
\* the loop of _extract_line_items_from_text from line i on
TextItems(lines, i) ==
  IF i > Len(lines) THEN <<>>
  ELSE LET line == Strip(lines[i])
           m    == ReMatch(ItemPattern, line)
       IN  IF ~m.ok THEN TextItems(lines, i + 1)
           ELSE LET item == [description  |-> Str(Strip(Group(line, m, 1))),
                             quantity     |-> PyInt(DigitsVal(Group(line, m, 2), 0)),
                             unit_price   |-> parse_amount(Str(Group(line, m, 3))),
                             total_amount |-> parse_amount(Str(Group(line, m, 4)))]
                    next_line == IF i + 1 <= Len(lines) THEN Strip(lines[i + 1]) ELSE <<>>
                    dm == ReSearch(DateRangePattern, next_line)
                IN  (IF i + 1 <= Len(lines) /\ dm.ok
                     THEN <<DictSet(item, "service_period",
                                    Str(Group(next_line, dm, 1) \o <<" ", "-", " ">>
                                          \o Group(next_line, dm, 2)))>>
                     ELSE <<item>>)
                      \o TextItems(lines, i + 1)

extract_line_items_from_text(text) == TextItems(SplitLines(text), 1)

\* extract_line_items with the items of the text after those of the tables
extract_line_items_of_both(tables, text) ==
  TableItems(tables) \o extract_line_items_from_text(text)

\* extract_line_items(tables, text)
extract_line_items(tables, text) ==
  LET line_items == TableItems(tables) IN
  IF line_items = <<>> /\ text # <<>> THEN extract_line_items_from_text(text)
  ELSE line_items

(***************************************************************************)
(* The auxiliary-data extractor.                                           *)
(***************************************************************************)
\* the number of lines extract_vendor_info looks at
HeaderLines == 15

\* the body of the loop of extract_vendor_info on one line
VendorLine(raw_line, vendor_info) ==
  LET line == Strip(raw_line) IN
  IF line = <<>> THEN vendor_info
  ELSE LET em == ReSearch(EmailPattern, line)
           email == Slice(line, em.start, em.end)
           v1 == IF ~em.ok THEN vendor_info
                 ELSE IF Contains(StrLower(email), <<"k", "h", "a", "n", "a", "c", "a", "d", "e", "m", "y", ".", "o", "r", "g">>)
                 THEN DictSet(vendor_info, "email", Str(email))
                 ELSE IF "email" \notin DOMAIN vendor_info
                 THEN DictSet(vendor_info, "vendor_or_customer_email", Str(email))
                 ELSE vendor_info
           pm == ReSearch(PhonePattern, line)
           v2 == IF pm.ok THEN DictSet(v1, "phone", Str(Slice(line, pm.start, pm.end)))
                 ELSE v1
           am == ReSearch(AddressPattern, line)
       IN  IF am.ok THEN DictSet(v2, "address", Str(line)) ELSE v2

RECURSIVE VendorLines(_, _, _)
VendorLines(lines, i, vendor_info) ==
  IF i > Len(lines) \/ i > HeaderLines THEN vendor_info
  ELSE VendorLines(lines, i + 1, VendorLine(lines[i], vendor_info))

\* extract_vendor_info(text)
extract_vendor_info(text) == VendorLines(SplitLines(text), 1, EmptyDict)

RECURSIVE PoScan(_, _)
\* the loop over po_patterns from pattern i on
PoScan(text, i) ==
  IF i > Len(PoPatterns) THEN EmptyDict
  ELSE LET m == ReSearch(PoPatterns[i], text)
           po_value == Strip(Group(text, m, 1))
       IN  IF m.ok /\ StrLower(po_value) # <<"b", "o", "x">>
           THEN DictSet(EmptyDict, "po_number", Str(po_value))
           ELSE PoScan(text, i + 1)

RECURSIVE TermsScan(_, _)
\* the loop over terms_patterns from pattern i on
TermsScan(text, i) ==
  IF i > Len(TermsPatterns) THEN EmptyDict
  ELSE LET m == ReSearch(TermsPatterns[i], text)
       IN  IF m.ok THEN DictSet(EmptyDict, "payment_terms", Str(Strip(Group(text, m, 1))))
           ELSE TermsScan(text, i + 1)

\* the characters U+20AC and U+00A3
Euro == "euro"

Pound == "pound"

\* currency_patterns, each with the code it stands for
CurrencyPatterns == <<
  <<<<"$">>, <<"U", "S", "D">>>>, <<<<"U", "S", "D">>, <<"U", "S", "D">>>>, <<<<"C", "A", "D">>, <<"C", "A", "D">>>>,
  <<<<"E", "U", "R">>, <<"E", "U", "R">>>>, <<<<Euro>>, <<"E", "U", "R">>>>, <<<<Pound>>, <<"G", "B", "P">>>>
>>

RECURSIVE CurrencyScan(_, _)
\* the loop over currency_patterns from pattern i on
CurrencyScan(text, i) ==
  IF i > Len(CurrencyPatterns) THEN EmptyDict
  ELSE IF Contains(text, CurrencyPatterns[i][1])
       THEN DictSet(EmptyDict, "currency", Str(CurrencyPatterns[i][2]))
       ELSE CurrencyScan(text, i + 1)

\* dict.update: d with the entries of more
DictUpdate(d, more) ==
  [x \in DOMAIN d \cup DOMAIN more |-> IF x \in DOMAIN more THEN more[x] ELSE d[x]]

\* the additional data with its three keys there from the start
extract_additional_data_with_defaults(text) ==
  DictUpdate(DictUpdate(DictUpdate([po_number |-> None, payment_terms |-> None, currency |-> None],
                                   PoScan(text, 1)), TermsScan(text, 1)), CurrencyScan(text, 1))

\* extract_additional_data(text)
extract_additional_data(text) ==
  DictUpdate(DictUpdate(PoScan(text, 1), TermsScan(text, 1)), CurrencyScan(text, 1))

(***************************************************************************)
(* Ingestion.  A PDF is the sequence of its pages.  A page has its text    *)
(* (None for none) and its tables (each a sequence of rows of cells, the   *)
(* header row first); text_raises and tables_raise say that extracting     *)
(* them from the page fails with an exception.                             *)
(***************************************************************************)
RECURSIVE PagesText(_, _, _)
\* the loop of extract_text_from_pdf from page p on; an exception leaves the
\* loop with the text so far
PagesText(pages, p, text) ==
  IF p > Len(pages) THEN text
  ELSE IF pages[p].text_raises THEN text
  ELSE IF Falsy(pages[p].text) THEN PagesText(pages, p + 1, text)
  ELSE PagesText(pages, p + 1, text \o pages[p].text.v \o <<"\n">>)

\* extract_text_from_pdf(pdf_path)
extract_text_from_pdf(pages) == PagesText(pages, 1, <<>>)

RECURSIVE ZipRecord(_, _, _, _)
\* dict(zip(columns, row)) from column c on
ZipRecord(columns, row, c, record) ==
  IF c > Len(columns) THEN record
  ELSE IF \E j \in 1..Len(record) : record[j][1] = columns[c]
  THEN ZipRecord(columns, row, c + 1,
                 [j \in 1..Len(record) |->
                    IF record[j][1] = columns[c] THEN <<columns[c], row[c]>> ELSE record[j]])
  ELSE ZipRecord(columns, row, c + 1, Append(record, <<columns[c], row[c]>>))

\* whether pd.DataFrame(table[1:], columns=table[0]) raises: a row has not
\* as many cells as the header row (the rows of a table of the model are of
\* one length)
Ragged(table) == \E r \in 2..Len(table) : Len(table[r]) # Len(table[1])

\* pd.DataFrame(table[1:], columns=table[0]).to_dict('records')
ToRecords(table) ==
  [r \in 1..(Len(table) - 1) |-> ZipRecord(table[1], table[r + 1], 1, <<>>)]

RECURSIVE TablesFrom(_, _, _, _)
\* the loops of extract_tables_from_pdf from table t of page p on; an
\* exception leaves them with the tables so far
TablesFrom(pages, p, t, tables) ==
  IF p > Len(pages) THEN tables
  ELSE IF pages[p].tables_raise THEN tables
  ELSE IF t > Len(pages[p].tables) THEN TablesFrom(pages, p + 1, 1, tables)
  ELSE LET table == pages[p].tables[t] IN
       IF table = <<>> THEN TablesFrom(pages, p, t + 1, tables)
       ELSE IF Ragged(table) THEN tables
       ELSE TablesFrom(pages, p, t + 1,
                       Append(tables, [page |-> p, table_number |-> t,
                                       data |-> ToRecords(table)]))

\* extract_tables_from_pdf(pdf_path)
extract_tables_from_pdf(pages) == TablesFrom(pages, 1, 1, <<>>)

(***************************************************************************)
(* The documents of the model.                                             *)
(***************************************************************************)
Page(text, page_tables) ==
  [text |-> text, tables |-> page_tables, text_raises |-> FALSE, tables_raise |-> FALSE]

Row(cells) == [c \in 1..Len(cells) |-> Str(cells[c])]

\* a table whose four columns are the four fields of a line item
ItemsTable == <<
  Row(<<<<"D", "e", "s", "c", "r", "i", "p", "t", "i", "o", "n">>, <<"Q", "t", "y">>, <<"U", "n", "i", "t", " ", "p", "r", "i", "c", "e">>, <<"A", "m", "o", "u", "n", "t">>>>),
  Row(<<<<"K", "h", "a", "n", "m", "i", "g", "o">>, <<"1">>, <<"U", "S", "$", "4", ".", "0", "0">>, <<"U", "S", "$", "4", ".", "0", "0">>>>)
>>

\* a table with one column of a line item, and one that is none
NotesTable == <<
  Row(<<<<"I", "t", "e", "m">>, <<"N", "o", "t", "e", "s">>>>),
  Row(<<<<"W", "i", "d", "g", "e", "t">>, <<"n", "/", "a">>>>)
>>

\* a table with two columns of the same field, and rows with empty cells
MixedTable == <<
  <<Str(<<"I", "t", "e", "m">>), Str(<<"D", "e", "s", "c", "r", "i", "p", "t", "i", "o", "n">>), Str(<<"T", "o", "t", "a", "l">>), None>>,
  <<Str(<<"A">>), Str(<<"B">>), None, Str(<<"x">>)>>,
  <<Str(<<"A">>), Str(<<"B">>), Str(<<" ">>), Str(<<>>)>>,
  <<None, Str(<<"G", "o", "l", "d", " ", "p", "l", "a", "n">>), Str(<<"U", "S", "$", "1", ",", "2", "3", "4", ".", "5", "6">>), Str(<<"y">>)>>
>>

PageSeq == <<
  Page(Str(<<"K", "h", "a", "n", "m", "i", "g", "o", " ", "1", " ", "U", "S", "$", "4", ".", "0", "0", " ", "U", "S", "$", "4", ".", "0", "0", "\n", "T", "o", "t", "a", "l", " ", "U", "S", "$", "4", ".", "0", "0">>), <<>>),
  Page(Str(<<"P", "O", "#", " ", "8", "8", "2", "3", "1", "\n", "T", "e", "r", "m", "s", ":", " ", "N", "e", "t", " ", "3", "0">>), <<ItemsTable>>),
  Page(None, <<<<>>, NotesTable>>),
  [Page(Str(<<"K", "h", "a", "n", " ", "A", "c", "a", "d", "e", "m", "y">>), <<>>) EXCEPT !.text_raises = TRUE],
  [Page(Str(<<"D", "a", "t", "e", " ", "d", "u", "e", " ", "M", "a", "r", "c", "h", " ", "3", ",", " ", "2", "0", "2", "4">>), <<MixedTable>>) EXCEPT !.tables_raise = TRUE]
>>

Pages == {PageSeq[i] : i \in 1..Len(PageSeq)}

\* the most pages of a document
MaxPages == 2

RECURSIVE SeqsUpTo(_, _)
\* the sequences of at most n elements of S
SeqsUpTo(S, n) ==
  IF n = 0 THEN {<<>>}
  ELSE LET shorter == SeqsUpTo(S, n - 1)
       IN  shorter \cup {Append(s, x) : s \in shorter, x \in S}

Documents == SeqsUpTo(Pages, MaxPages)

\* the file names of the documents
PdfPaths == {<<"I", "n", "v", "o", "i", "c", "e", "-", "4", "E", "6", "2", "B", "C", "7", "A", "-", "0", "0", "0", "1", ".", "p", "d", "f">>, <<"s", "c", "a", "n", ".", "p", "d", "f">>}

\* the messages of the exceptions a step may raise
ExceptionMessages == {<<"o", "u", "t", " ", "o", "f", " ", "m", "e", "m", "o", "r", "y">>}

\* the calls of extract_invoice_data on one extractor
MaxRuns == 2

(***************************************************************************)
(* extract_invoice_data, step by step.                                     *)
(***************************************************************************)
VARIABLES
  pdf_path,      \* the argument: the file's name
  pages,         \* the pages of the file
  debug,         \* self.debug
  patterns,      \* self.patterns
  now,           \* datetime.now()
  pc,            \* the step the call is at
  text,          \* the local text
  tables,        \* the local tables
  raw,           \* what extract_using_patterns returned, per field
  invoice_data,  \* the local invoice_data
  result,        \* what the call returned
  runs,          \* the calls so far, this one included
  prev,          \* what the call before this one returned
  exc,           \* the exception raised in the try block, or None
  call           \* the function called on its own, and its arguments

vars == <<pdf_path, pages, debug, patterns, now, pc, text, tables, raw,
          invoice_data, result, runs, prev, exc, call>>

Dict(d) == [k |-> "dict", d |-> d]

List(l) == [k |-> "list", v |-> l]

\* the fields of a record, in the order extract_invoice_data resolves them
FieldOrder == <<"invoice_number", "date", "due_date", "total", "subtotal", "tax",
                "vendor_name", "customer_name">>

Fields == {FieldOrder[i] : i \in 1..Len(FieldOrder)}

NoTextMessage == <<"N", "o", " ", "t", "e", "x", "t", " ", "c", "o", "u", "l", "d", " ", "b", "e", " ", "e", "x", "t", "r", "a", "c", "t", "e", "d", " ", "f", "r", "o", "m", " ", "P", "D", "F">>

FailedPrefix == <<"F", "a", "i", "l", "e", "d", " ", "t", "o", " ", "e", "x", "t", "r", "a", "c", "t", " ", "d", "a", "t", "a", ":", " ">>

Init ==
  /\ pdf_path \in PdfPaths
  /\ pages \in Documents
  /\ debug \in BOOLEAN
  /\ patterns = Patterns
  /\ now = 0
  /\ pc = "start"
  /\ text = <<>>
  /\ tables = <<>>
  /\ raw = EmptyDict
  /\ invoice_data = EmptyDict
  /\ result = None
  /\ runs = 1
  /\ prev = None
  /\ exc = None
  /\ call = <<>>

\* the record for a document without text, with the file it came from
NoTextRecordWithSource ==
  Dict([error |-> Str(NoTextMessage), source_file |-> Str(pdf_path)])

\* the record returned for a document without text
NoTextRecord == Dict([error |-> Str(NoTextMessage)])

\* text = self.extract_text_from_pdf(pdf_path), and the return of the error
\* record if it is empty
ExtractText ==
  /\ pc = "start"
  /\ text' = extract_text_from_pdf(pages)
  /\ IF text' = <<>>
     THEN /\ result' = NoTextRecord
          /\ pc' = "done"
     ELSE /\ result' = result
          /\ pc' = "tables"
  /\ UNCHANGED <<pdf_path, pages, debug, patterns, now, tables, raw, invoice_data, runs, prev, exc, call>>

\* tables = self.extract_tables_from_pdf(pdf_path)
ExtractTables ==
  /\ pc = "tables"
  /\ tables' = extract_tables_from_pdf(pages)
  /\ pc' = "fields"
  /\ UNCHANGED <<pdf_path, pages, debug, patterns, now, text, raw, invoice_data, result, runs, prev, exc, call>>

\* the invoice number of the file name, or None
filename_invoice_number(path) ==
  LET m == ReSearch(FilenameInvoicePattern, path)
  IN  IF m.ok THEN Str(Group(path, m, 1)) ELSE None

\* the value of a field from what extract_using_patterns returned for it
FieldValue(field, found, path) ==
  CASE field = "invoice_number" ->
         IF Falsy(found) /\ filename_invoice_number(path) # None
         THEN filename_invoice_number(path) ELSE found
    [] field \in {"date", "due_date"} -> parse_date(found)
    [] field \in {"total", "subtotal", "tax"} -> parse_amount(found)
    [] OTHER -> found

\* the basic fields: invoice_data = {}, then one assignment per field
ExtractFields ==
  /\ pc = "fields"
  /\ raw' = [f \in Fields |-> extract_using_patterns(patterns, text, f)]
  /\ invoice_data' = [f \in Fields |-> FieldValue(f, raw'[f], pdf_path)]
  /\ pc' = "vendor"
  /\ UNCHANGED <<pdf_path, pages, debug, patterns, now, text, tables, result, runs, prev, exc, call>>

\* vendor_info = self.extract_vendor_info(text)
ExtractVendorInfo ==
  /\ pc = "vendor"
  /\ LET vendor_info == extract_vendor_info(text) IN
     invoice_data' = IF vendor_info # EmptyDict
                     THEN DictSet(invoice_data, "vendor_info", Dict(vendor_info))
                     ELSE invoice_data
  /\ pc' = "items"
  /\ UNCHANGED <<pdf_path, pages, debug, patterns, now, text, tables, raw, result, runs, prev, exc, call>>

\* line_items = self.extract_line_items(tables, text)
ExtractLineItems ==
  /\ pc = "items"
  /\ LET line_items == extract_line_items(tables, text) IN
     invoice_data' = IF line_items # <<>>
                     THEN DictSet(invoice_data, "line_items", List(line_items))
                     ELSE invoice_data
  /\ pc' = "additional"
  /\ UNCHANGED <<pdf_path, pages, debug, patterns, now, text, tables, raw, result, runs, prev, exc, call>>

\* invoice_data.update(self.extract_additional_data(text))
ExtractAdditional ==
  /\ pc = "additional"
  /\ invoice_data' = DictUpdate(invoice_data, extract_additional_data(text))
  /\ pc' = "metadata"
  /\ UNCHANGED <<pdf_path, pages, debug, patterns, now, text, tables, raw, result, runs, prev, exc, call>>

\* the length from which raw_text is cut
RawTextLimit == 1000

\* the debug entries of the record
DebugEntries(path, txt, tbls) ==
  [debug_info |-> Dict([extracted_text_length   |-> PyInt(Len(txt)),
                        tables_found            |-> PyInt(Len(tbls)),
                        filename_invoice_number |-> filename_invoice_number(path)]),
   raw_text   |-> IF Len(txt) > RawTextLimit
                  THEN Str(SubSeq(txt, 1, RawTextLimit) \o <<".", ".", ".">>)
                  ELSE Str(txt)]

\* the record with a second entry made of the clock
AssembledWithClock(data, path, time, dbg, txt, tbls) ==
  LET stamped == DictUpdate(data, [extraction_date |-> PyInt(time), source_file |-> Str(path),
                                   processed_at |-> PyInt(time)])
      debugged == IF dbg THEN DictUpdate(stamped, DebugEntries(path, txt, tbls)) ELSE stamped
  IN  IF tbls # <<>> THEN DictSet(debugged, "raw_tables", List(tbls)) ELSE debugged

\* the metadata, the debug entries and the raw tables of a record
Assembled(data, path, time, dbg, txt, tbls) ==
  LET stamped == DictUpdate(data, [extraction_date |-> PyInt(time), source_file |-> Str(path)])
      debugged == IF dbg THEN DictUpdate(stamped, DebugEntries(path, txt, tbls)) ELSE stamped
  IN  IF tbls # <<>> THEN DictSet(debugged, "raw_tables", List(tbls)) ELSE debugged

\* the metadata, and the return of the record
Assemble ==
  /\ pc = "metadata"
  /\ invoice_data' = Assembled(invoice_data, pdf_path, now, debug, text, tables)
  /\ result' = Dict(invoice_data')
  /\ pc' = "done"
  /\ UNCHANGED <<pdf_path, pages, debug, patterns, now, text, tables, raw, runs, prev, exc, call>>

\* an exception in the step the call is at, whichever it is: control goes to
\* the except clause
Raise ==
  /\ pc \notin {"except", "done"}
  /\ \E message \in ExceptionMessages : exc' = Str(message)
  /\ pc' = "except"
  /\ UNCHANGED <<pdf_path, pages, debug, patterns, now, text, tables, raw, invoice_data, result, runs, prev, call>>

\* the record assembled so far, with the error added to it
PartialRecord(e) ==
  Dict(DictSet(invoice_data, "error", Str(FailedPrefix \o e.v)))

\* the record the except clause returns for exception e
ErrorRecord(e) == Dict([error |-> Str(FailedPrefix \o e.v)])

\* except Exception as e: the return of the error record
Except ==
  /\ pc = "except"
  /\ result' = ErrorRecord(exc)
  /\ pc' = "done"
  /\ UNCHANGED <<pdf_path, pages, debug, patterns, now, text, tables, raw, invoice_data, runs, prev, exc, call>>

\* another call of extract_invoice_data on the same extractor and file, later
Rerun ==
  /\ pc = "done"
  /\ runs < MaxRuns
  /\ runs' = runs + 1
  /\ prev' = result
  /\ now' = now + 1
  /\ pc' = "start"
  /\ text' = <<>>
  /\ tables' = <<>>
  /\ raw' = EmptyDict
  /\ invoice_data' = EmptyDict
  /\ result' = None
  /\ exc' = None
  /\ UNCHANGED <<pdf_path, pages, debug, patterns, call>>

Next ==
  \/ ExtractText
  \/ ExtractTables
  \/ ExtractFields
  \/ ExtractVendorInfo
  \/ ExtractLineItems
  \/ ExtractAdditional
  \/ Assemble
  \/ Raise
  \/ Except
  \/ Rerun

Spec == Init /\ [][Next]_vars

(***************************************************************************)
(* Calls of one function on its own.  The function and its arguments are   *)
(* in call, what it returned in result; pc goes from "call" to "returned". *)
(***************************************************************************)
\* the values of the variables a call on its own leaves alone
Idle ==
  /\ pdf_path = <<>>
  /\ pages = <<>>
  /\ debug = FALSE
  /\ patterns = Patterns
  /\ now = 0
  /\ raw = EmptyDict
  /\ invoice_data = EmptyDict
  /\ result = None
  /\ runs = 1
  /\ prev = None
  /\ exc = None
  /\ call = <<>>
  /\ pc = "call"

\* the function of call returns value
Return(function, value) ==
  /\ pc = "call"
  /\ call' = function
  /\ result' = value
  /\ pc' = "returned"
  /\ UNCHANGED <<pdf_path, pages, debug, patterns, now, text, tables, raw, invoice_data, runs, prev, exc>>

Returned(name) == pc = "returned" /\ call[1] = name

\* the lines of the texts
LineSeq == <<
  <<"T", "o", "t", "a", "l", ":", " ", "7">>,
  <<"T", "o", "t", "a", "l", " ", "$", "4", "4", ".", "0", "0">>,
  <<"$", "4", ".", "0", "0", " ", "$", "4", "0", ".", "0", "0", " ", "$", "4", "4", ".", "0", "0">>,
  <<"$", "0", ".", "0", "0">>,
  <<"P", "O", " ", "B", "o", "x", " ", "1", "6", "3", "0">>,
  <<"P", "O", "#", " ", "8", "8", "2", "3", "1">>,
  <<"W", "i", "d", "g", "e", "t", "s", " ", "3", " ", "U", "S", "$", "1", "0", ".", "0", "0", " ", "U", "S", "$", "3", "0", ".", "0", "0">>,
  <<"J", "a", "n", " ", "1", ",", " ", "2", "0", "2", "4", " ", EnDash, " ", "2", " ", "F", "e", "b", " ", "2", "0", "2", "4">>
>>

Lines == {LineSeq[i] : i \in 1..Len(LineSeq)}

\* the most lines of a text
MaxLines == 2

Texts == {JoinWith(ls, <<"\n">>) : ls \in SeqsUpTo(Lines, MaxLines)}

TextInit ==
  /\ text \in Texts
  /\ tables = <<>>
  /\ Idle

CallExtractUsingPatterns ==
  \E field \in Fields :
    Return(<<"extract_using_patterns", field>>, extract_using_patterns(patterns, text, field))

CallExtractLineItemsFromText ==
  Return(<<"_extract_line_items_from_text">>, List(extract_line_items_from_text(text)))

CallExtractAdditionalData ==
  Return(<<"extract_additional_data">>, Dict(extract_additional_data(text)))

TextNext ==
  \/ CallExtractUsingPatterns
  \/ CallExtractLineItemsFromText
  \/ CallExtractAdditionalData

SpecText == TextInit /\ [][TextNext]_vars

\* the header cells and the cells under them, of the tables
HeaderCells == {Str(<<"D", "e", "s", "c", "r", "i", "p", "t", "i", "o", "n">>), Str(<<"I", "t", "e", "m">>), Str(<<"Q", "t", "y">>), Str(<<"N", "o", "t", "e", "s">>), None}

ValueCells == {Str(<<"W", "i", "d", "g", "e", "t">>), Str(<<" ", "2", " ">>), Str(<<" ">>), None}

\* the most columns of a table
MaxColumns == 2

Rows(cells) == UNION {[1..n -> cells] : n \in 1..MaxColumns}

\* the tables of a header row and one row under it
RawTables == {<<header, row>> : header \in Rows(HeaderCells), row \in Rows(ValueCells)}

TableInit ==
  /\ \E table \in RawTables : tables = extract_tables_from_pdf(<<Page(None, <<table>>)>>)
  /\ text \in {<<>>, LineSeq[7]}
  /\ Idle

CallExtractLineItems ==
  Return(<<"extract_line_items">>, List(extract_line_items(tables, text)))

TableNext == CallExtractLineItems

SpecTable == TableInit /\ [][TableNext]_vars

\* the characters of the raw strings
RawChars == {"$", "1", "0", ".", "a"}

\* the most characters of a raw string
MaxRawLen == 3

\* the raw strings that are amounts, or none
AmountStrings == SeqsUpTo(RawChars, MaxRawLen)
  \cup {<<"U", "S", "$", "1", ",", "2", "3", "4", ".", "5", "6">>, <<"n", "o", "t", " ", "a", " ", "n", "u", "m", "b", "e", "r">>}

\* the raw strings that are dates, or none: those of which the model knows
\* what dateutil makes
DateStrings == {d[1] : d \in DateutilParses} \cup {<<>>, <<"g", "a", "r", "b", "a", "g", "e">>}

NormalizeInit ==
  /\ text \in AmountStrings \cup DateStrings
  /\ tables = <<>>
  /\ Idle

CallParseAmount == Return(<<"parse_amount">>, parse_amount(Str(text)))

CallParseDate ==
  /\ text \in DateStrings
  /\ Return(<<"parse_date">>, parse_date(Str(text)))

NormalizeNext ==
  \/ CallParseAmount
  \/ CallParseDate

SpecNormalize == NormalizeInit /\ [][NormalizeNext]_vars

(***************************************************************************)
(* The properties.                                                         *)
(***************************************************************************)
\* the patterns declared for a field that re.search finds in the lowercased
\* text, by their places in the list
Matching(field) ==
  {i \in 1..Len(patterns[field]) : ReSearch(patterns[field][i], StrLower(text)).ok}

\* the trimmed capture of pattern i of a field in the lowercased text
Capture(field, i) ==
  Strip(Group(StrLower(text), ReSearch(patterns[field][i], StrLower(text)), 1))

\* C1: for every text and every field with declared patterns,
\* extract_using_patterns returns the trimmed capture of the first pattern, in
\* declared order, that matches the text: neither a later pattern that
\* matches another value nor the fallback of the field is consulted
FirstMatchingPatternWins ==
  Returned("extract_using_patterns") =>
    LET matching == Matching(call[2]) IN
    matching # {} =>
      \E first \in matching :
        /\ \A i \in matching : first <= i
        /\ result = Str(Capture(call[2], first))

\* a call of extract_using_patterns on a text in which two patterns of the
\* field match, the later one capturing another value, has returned the
\* capture of the earlier one
FirstMatchingPatternWinsWitness ==
  /\ Returned("extract_using_patterns")
  /\ \E i, j \in Matching(call[2]) :
       /\ i < j
       /\ \A k \in Matching(call[2]) : i <= k
       /\ Capture(call[2], i) # Capture(call[2], j)
       /\ result = Str(Capture(call[2], i))

\* a call of extract_invoice_data has returned without an exception in it
ReturnedNormally == pc = "done" /\ exc = None

\* C2: when ingestion yields empty text, extract_invoice_data returns the
\* record whose one key is error, with the message 'No text could be
\* extracted from PDF', and neither the tables nor the fields are extracted
NoTextGivesErrorRecord ==
  (ReturnedNormally /\ text = <<>>) =>
    /\ result.k = "dict"
    /\ DOMAIN result.d = {"error"}
    /\ result.d.error = Str(<<"N", "o", " ", "t", "e", "x", "t", " ", "c", "o", "u", "l", "d", " ", "b", "e", " ", "e", "x", "t", "r", "a", "c", "t", "e", "d", " ", "f", "r", "o", "m", " ", "P", "D", "F">>)
    /\ tables = <<>>
    /\ raw = EmptyDict
    /\ invoice_data = EmptyDict

\* a document with tables and without text has been given its error record
NoTextGivesErrorRecordWitness ==
  /\ ReturnedNormally
  /\ text = <<>>
  /\ extract_tables_from_pdf(pages) # <<>>
  /\ DOMAIN result.d = {"error"}

\* C2 as the specification has it: the message of the record is 'no text
\* could be extracted from the document'
NoTextGivesDocumentMessage ==
  (ReturnedNormally /\ text = <<>>) =>
    result = Dict([error |-> Str(<<"n", "o", " ", "t", "e", "x", "t", " ", "c", "o", "u", "l", "d", " ", "b", "e", " ", "e", "x", "t", "r", "a", "c", "t", "e", "d", " ", "f", "r", "o", "m", " ", "t", "h", "e", " ", "d", "o", "c", "u", "m", "e", "n", "t">>)])

\* C3: extract_invoice_data lets no exception escape: whichever step raises,
\* the caller receives a record whose only key is error, with the message of
\* the exception in it, and never the record assembled so far
ExceptionGivesErrorRecord ==
  pc = "done" =>
    /\ result.k = "dict"
    /\ exc # None =>
         /\ DOMAIN result.d = {"error"}
         /\ result.d.error = Str(<<"F", "a", "i", "l", "e", "d", " ", "t", "o", " ", "e", "x", "t", "r", "a", "c", "t", " ", "d", "a", "t", "a", ":", " ">> \o exc.v)

\* a call that raised with fields already in its record has returned the
\* error record
ExceptionGivesErrorRecordWitness ==
  /\ pc = "done"
  /\ exc # None
  /\ invoice_data # EmptyDict
  /\ DOMAIN result.d = {"error"}

\* a record without its extraction_date
WithoutDate(record) ==
  [key \in DOMAIN record.d \ {"extraction_date"} |-> record.d[key]]

\* whether a record is the one of the except clause
FromExcept(record) ==
  /\ DOMAIN record.d = {"error"}
  /\ record.d.error # Str(NoTextMessage)

PoFound ==
  \E i \in 1..Len(PoPatterns) :
    LET m == ReSearch(PoPatterns[i], text)
    IN  m.ok /\ StrLower(Strip(Group(text, m, 1))) # <<"b", "o", "x">>

TermsFound == \E i \in 1..Len(TermsPatterns) : ReSearch(TermsPatterns[i], text).ok

CurrencyFound == \E i \in 1..Len(CurrencyPatterns) : Contains(text, CurrencyPatterns[i][1])

\* C9: the record assembled by extract_invoice_data has extraction_date and
\* source_file; it has line_items exactly when there is a line item, and
\* po_number, payment_terms and currency exactly when their scans found one
AssembledKeys ==
  (ReturnedNormally /\ text # <<>>) =>
    LET keys == DOMAIN result.d IN
    /\ {"extraction_date", "source_file"} \subseteq keys
    /\ "line_items" \in keys <=> extract_line_items(tables, text) # <<>>
    /\ "line_items" \in keys => result.d.line_items.v # <<>>
    /\ "po_number" \in keys <=> PoFound
    /\ "payment_terms" \in keys <=> TermsFound
    /\ "currency" \in keys <=> CurrencyFound

\* a record has been assembled with line items and a currency, and without
\* a PO number and payment terms
AssembledKeysWitness ==
  /\ ReturnedNormally
  /\ text # <<>>
  /\ {"extraction_date", "source_file", "line_items", "currency"} \subseteq DOMAIN result.d
  /\ DOMAIN result.d \cap {"po_number", "payment_terms"} = {}

\* what is left of a raw string without the characters that are neither
\* digits nor points
DigitsAndPoints(s) == SelectSeq(s, LAMBDA c : c \in Digit \cup {"."})

\* whether a string of digits and points is a number: it has a digit, and
\* one point at most
IsNumber(s) ==
  /\ \E i \in 1..Len(s) : s[i] \in Digit
  /\ \A i, j \in 1..Len(s) : (s[i] = "." /\ s[j] = ".") => i = j

\* the number that such a string is: its digits, over ten to the number of
\* those after the point
NumberOf(s) ==
  LET digits == SelectSeq(s, LAMBDA c : c \in Digit)
      after  == Cardinality({i \in 1..Len(s) : \E d \in 1..(i - 1) : s[d] = "."})
  IN  PyFloat(DigitsVal(digits, 0), after)

\* what parse_amount and parse_date return for a raw string they cannot
\* parse, and for one they can
AmountResult(raw_string) ==
  IF IsNumber(DigitsAndPoints(raw_string)) THEN NumberOf(DigitsAndPoints(raw_string))
  ELSE Str(raw_string)

DateResult(raw_string) ==
  IF DateParsed(raw_string) THEN Str(DateIso(raw_string)) ELSE Str(raw_string)

\* whether a string has the form YYYY-MM-DD
IsIso(s) ==
  /\ Len(s) = 10
  /\ \A i \in 1..10 : IF i \in {5, 8} THEN s[i] = "-" ELSE s[i] \in Digit

\* C4: parse_amount and parse_date raise for no raw string.  For a raw string
\* that is not empty, they return it as it came when it cannot be parsed,
\* and the number, or the date as YYYY-MM-DD, when it can: 'US$1,234.56'
\* gives 1234.56 and 'not a number' gives itself.  For the empty string they
\* return None
NormalizersPassThrough ==
  /\ Returned("parse_amount") =>
       /\ ~Raised(result)
       /\ result = IF text = <<>> THEN None ELSE AmountResult(text)
       /\ text = <<"U", "S", "$", "1", ",", "2", "3", "4", ".", "5", "6">> => result = PyFloat(123456, 2)
       /\ text = <<"n", "o", "t", " ", "a", " ", "n", "u", "m", "b", "e", "r">> => result = Str(text)
  /\ Returned("parse_date") =>
       /\ ~Raised(result)
       /\ result = IF text = <<>> THEN None ELSE DateResult(text)
       /\ DateParsed(text) => IsIso(result.v)
       /\ text = <<"M", "a", "r", "c", "h", " ", "3", ",", " ", "2", "0", "2", "4">> => result = Str(<<"2", "0", "2", "4", "-", "0", "3", "-", "0", "3">>)
       /\ text = <<"g", "a", "r", "b", "a", "g", "e">> => result = Str(text)

\* parse_amount has returned, as it came, a raw string with digits in it
\* that make no number
NormalizersPassThroughWitness ==
  /\ Returned("parse_amount")
  /\ \E i \in 1..Len(text) : text[i] \in Digit
  /\ ~IsNumber(DigitsAndPoints(text))
  /\ result = Str(text)

\* C4 as the specification has it: the raw string is returned as it came
\* whenever it cannot be parsed, the empty string too
NormalizersPassThroughAny ==
  /\ Returned("parse_amount") => result = AmountResult(text)
  /\ Returned("parse_date") => result = DateResult(text)

\* C5: the po_number of extract_additional_data is never 'box', in any
\* letter case; the text 'PO Box 1630' leaves it absent, and a text that
\* contains 'PO# 88231' gives the po_number '88231'
PoNumberFound ==
  Returned("extract_additional_data") =>
    /\ "po_number" \in DOMAIN result.d => StrLower(result.d.po_number.v) # <<"b", "o", "x">>
    /\ text = <<"P", "O", " ", "B", "o", "x", " ", "1", "6", "3", "0">> => "po_number" \notin DOMAIN result.d
    /\ Contains(text, <<"P", "O", "#", " ", "8", "8", "2", "3", "1">>) =>
         /\ "po_number" \in DOMAIN result.d
         /\ result.d.po_number = Str(<<"8", "8", "2", "3", "1">>)

\* the strings that the patterns of the total fallback find in the text
AmountTokens ==
  UNION {{FindAll(TotalAltPatterns[p], text)[i] :
            i \in 1..Len(FindAll(TotalAltPatterns[p], text))} :
         p \in 1..Len(TotalAltPatterns)}

\* of these, as numbers, those that are numbers above zero
PositiveTokens ==
  {NumberOf(DigitsAndPoints(t)) :
     t \in {u \in AmountTokens : /\ IsNumber(DigitsAndPoints(u))
                                 /\ NumberOf(DigitsAndPoints(u)).m > 0}}

\* the fallback of total is what extract_using_patterns returned
TotalFallback ==
  /\ Returned("extract_using_patterns")
  /\ call[2] = "total"
  /\ Matching("total") = {}

\* C6: when no pattern declared for total matches, the fallback returns the
\* greatest of the amounts of the text that parse and are above zero, and
\* nothing when there is none: the total of '$4.00 $40.00 $44.00' is 44.0
TotalFallbackIsMaximum ==
  TotalFallback =>
    /\ IF PositiveTokens = {} THEN result = None
       ELSE \E a \in PositiveTokens :
              /\ \A b \in PositiveTokens : ~NumLess(a, b)
              /\ result = Str(FloatStr(a))
              /\ parse_amount(result) = a
    /\ text = <<"$", "4", ".", "0", "0", " ", "$", "4", "0", ".", "0", "0", " ", "$", "4", "4", ".", "0", "0">> => parse_amount(result) = PyFloat(44, 0)

\* the fallback has returned the greatest of three amounts
TotalFallbackIsMaximumWitness ==
  /\ TotalFallback
  /\ Cardinality(PositiveTokens) = 3
  /\ result = Str(<<"4", "4", ".", "0">>)

\* the lines of the text, and those of them that have the shape of a line
\* item
TextLines == SplitLines(text)

ItemLines == {i \in 1..Len(TextLines) : ReMatch(ItemPattern, Strip(TextLines[i])).ok}

\* the k-th line with the shape of a line item
ItemLine(k) == CHOOSE i \in ItemLines : Cardinality({j \in ItemLines : j < i}) = k - 1

\* whether the line after line i has a date range in it
RangeAfter(i) ==
  /\ i < Len(TextLines)
  /\ ReSearch(DateRangePattern, Strip(TextLines[i + 1])).ok

\* C7: _extract_line_items_from_text gives one line item for each line of
\* the shape description, quantity, amount, amount, in the order of the
\* lines, made of the four groups of the line, with a service_period exactly
\* when the line after it has a date range: 'Widgets 3 US$10.00 US$30.00'
\* before 'Jan 1, 2024 (en dash) 2 Feb 2024' gives one item, whose
\* service_period is 'Jan 1, 2024 - 2 Feb 2024'
TextLineItems ==
  Returned("_extract_line_items_from_text") =>
    /\ Len(result.v) = Cardinality(ItemLines)
    /\ \A k \in 1..Len(result.v) :
         LET item == result.v[k]
             line == Strip(TextLines[ItemLine(k)])
             m    == ReMatch(ItemPattern, line)
         IN  /\ {"description", "quantity", "unit_price", "total_amount"} \subseteq DOMAIN item
             /\ DOMAIN item \subseteq {"description", "quantity", "unit_price", "total_amount", "service_period"}
             /\ item.description = Str(Strip(Group(line, m, 1)))
             /\ item.quantity = PyInt(DigitsVal(Group(line, m, 2), 0))
             /\ item.unit_price = AmountResult(Group(line, m, 3))
             /\ item.total_amount = AmountResult(Group(line, m, 4))
             /\ "service_period" \in DOMAIN item <=> RangeAfter(ItemLine(k))
    /\ text = <<"W", "i", "d", "g", "e", "t", "s", " ", "3", " ", "U", "S", "$", "1", "0", ".", "0", "0", " ", "U", "S", "$", "3", "0", ".", "0", "0", "\n", "J", "a", "n", " ", "1", ",", " ", "2", "0", "2", "4", " ", EnDash, " ", "2", " ", "F", "e", "b", " ", "2", "0", "2", "4">> =>
         result.v = <<[description    |-> Str(<<"W", "i", "d", "g", "e", "t", "s">>),
                       quantity       |-> PyInt(3),
                       unit_price     |-> PyFloat(10, 0),
                       total_amount   |-> PyFloat(30, 0),
                       service_period |-> Str(<<"J", "a", "n", " ", "1", ",", " ", "2", "0", "2", "4", " ", "-", " ", "2", " ", "F", "e", "b", " ", "2", "0", "2", "4">>)]>>

\* of two lines, the first a date range and the second of the shape of a
\* line item, one item has been made, without a service_period
TextLineItemsWitness ==
  /\ Returned("_extract_line_items_from_text")
  /\ Len(TextLines) = 2
  /\ ReSearch(DateRangePattern, TextLines[1]).ok
  /\ ItemLines = {2}
  /\ Len(result.v) = 1
  /\ "service_period" \notin DOMAIN result.v[1]

\* the rows of the tables
TableRows == Concat([t \in 1..Len(tables) |-> tables[t].data])

\* the fields of a line item that the columns of a row populate
Populated(row) ==
  {ColumnField(StrLower(row[c][1].v)) :
     c \in {d \in 1..Len(row) : ~Falsy(row[d][1]) /\ ~Falsy(row[d][2])}} \ {""}

\* the rows that at least two fields are populated from
Contributing == {r \in 1..Len(TableRows) : Cardinality(Populated(TableRows[r])) >= 2}

\* C10: a table row gives a line item only if at least two of the four
\* fields are populated from its columns; a row whose columns populate one
\* field, or none, gives nothing, and every item of the result has at least
\* two keys
RowsNeedTwoFields ==
  Returned("extract_line_items") =>
    /\ \A k \in 1..Len(result.v) : Cardinality(DOMAIN result.v[k]) >= 2
    /\ IF Contributing = {} THEN result.v = extract_line_items_from_text(text)
       ELSE /\ Len(result.v) = Cardinality(Contributing)
            /\ \A k \in 1..Len(result.v) :
                 \E r \in Contributing :
                   /\ Cardinality({q \in Contributing : q < r}) = k - 1
                   /\ DOMAIN result.v[k] = Populated(TableRows[r])

\* a row with two columns that populate the same field has given nothing
RowsNeedTwoFieldsWitness ==
  /\ Returned("extract_line_items")
  /\ text = <<>>
  /\ Len(TableRows) = 1
  /\ \E c, d \in 1..Len(TableRows[1]) :
       /\ c # d
       /\ ~Falsy(TableRows[1][c][1]) /\ ~Falsy(TableRows[1][c][2])
       /\ ~Falsy(TableRows[1][d][1]) /\ ~Falsy(TableRows[1][d][2])
  /\ Cardinality(Populated(TableRows[1])) = 1
  /\ result.v = <<>>

\* the line items that the text gives
ItemsOfText == extract_line_items_from_text(text)

\* whether an item of the result is one of those that the text gives
FromText(item) == \E k \in 1..Len(ItemsOfText) : ItemsOfText[k] = item

\* C11: extract_line_items goes to the text exactly when the tables gave no
\* line item and the text is not empty: once a row of a table gives a line
\* item, no item of the result is one of the text, and the result never has
\* items of both
TextOnlyWithoutTableItems ==
  Returned("extract_line_items") =>
    IF Contributing # {}
    THEN /\ Len(result.v) = Cardinality(Contributing)
         /\ \A k \in 1..Len(result.v) : ~FromText(result.v[k])
    ELSE /\ result.v = IF text # <<>> THEN ItemsOfText ELSE <<>>
         /\ \A k \in 1..Len(result.v) : FromText(result.v[k])

\* a row of a table has given a line item, and the text, which has the line
\* of an item in it, has given none
TextOnlyWithoutTableItemsWitness ==
  /\ Returned("extract_line_items")
  /\ Contributing # {}
  /\ ItemsOfText # <<>>
  /\ Len(result.v) = 1
  /\ ~FromText(result.v[1])

\* the lines of the texts that extract_vendor_info and
\* _extract_vendor_name_alternative are called on
VendorLineSeq == <<
  <<"K", "h", "a", "n", " ", "A", "c", "a", "d", "e", "m", "y", " ", "B", "i", "l", "l", " ", "t", "o">>,
  <<"K", "H", "A", "N", " ", "A", "C", "A", "D", "E", "M", "Y">>,
  <<"k", "h", "a", "n", " ", "a", "c", "a", "d", "e", "m", "y", ",", " ", "i", "n", "c", ".">>,
  <<"(", "6", "5", "0", ")", " ", "5", "5", "5", "-", "1", "2", "3", "4">>,
  <<"6", "5", "0", "-", "5", "5", "5", "-", "9", "9", "9", "9", " ", "M", "o", "u", "n", "t", "a", "i", "n", " ", "V", "i", "e", "w">>,
  <<"P", "O", " ", "B", "o", "x", " ", "1", "6", "3", "0">>,
  <<"b", "i", "l", "l", "i", "n", "g", "@", "k", "h", "a", "n", "a", "c", "a", "d", "e", "m", "y", ".", "o", "r", "g">>,
  <<"b", "o", "b", "@", "e", "x", "a", "m", "p", "l", "e", ".", "c", "o", "m">>
>>

VendorTexts ==
  {JoinWith(ls, <<"\n">>) :
     ls \in SeqsUpTo({VendorLineSeq[i] : i \in 1..Len(VendorLineSeq)}, MaxLines)}

VendorInit ==
  /\ text \in VendorTexts
  /\ tables = <<>>
  /\ Idle

CallExtractVendorInfo ==
  Return(<<"extract_vendor_info">>, Dict(extract_vendor_info(text)))

CallExtractVendorNameAlternative ==
  Return(<<"_extract_vendor_name_alternative">>, extract_vendor_name_alternative(text))

VendorNext ==
  \/ CallExtractVendorInfo
  \/ CallExtractVendorNameAlternative

SpecVendor == VendorInit /\ [][VendorNext]_vars

\* the header lines of the text, stripped
Header == [i \in 1..(IF Len(TextLines) < HeaderLines THEN Len(TextLines) ELSE HeaderLines) |->
             Strip(TextLines[i])]

\* the first of a set of lines
First(S) == CHOOSE i \in S : \A j \in S : i <= j

\* the header lines with a phone number, with an address, and with an
\* e-mail address of the vendor
PhoneLines == {i \in 1..Len(Header) : ReSearch(PhonePattern, Header[i]).ok}

AddressLines == {i \in 1..Len(Header) : ReSearch(AddressPattern, Header[i]).ok}

\* what a pattern matches in a line
Matched(re, line) == Slice(line, ReSearch(re, line).start, ReSearch(re, line).end)

EmailLines ==
  {i \in 1..Len(Header) :
     /\ ReSearch(EmailPattern, Header[i]).ok
     /\ Contains(StrLower(Matched(EmailPattern, Header[i])), <<"k", "h", "a", "n", "a", "c", "a", "d", "e", "m", "y", ".", "o", "r", "g">>)}

\* C12: in extract_vendor_info each of email, phone and address is there
\* when a header line matches it, and is of the first header line that
\* matches: a later line that matches never replaces it
FirstVendorLineWins ==
  Returned("extract_vendor_info") =>
    /\ "phone" \in DOMAIN result.d <=> PhoneLines # {}
    /\ "address" \in DOMAIN result.d <=> AddressLines # {}
    /\ "email" \in DOMAIN result.d <=> EmailLines # {}
    /\ PhoneLines # {} =>
         result.d.phone = Str(Matched(PhonePattern, Header[First(PhoneLines)]))
    /\ AddressLines # {} => result.d.address = Str(Header[First(AddressLines)])
    /\ EmailLines # {} =>
         result.d.email = Str(Matched(EmailPattern, Header[First(EmailLines)]))

\* the stripped lines of the text
Stripped == [i \in 1..Len(TextLines) |-> Strip(TextLines[i])]

\* whether a stripped line has the vendor token and the 'bill to' marker
HasBoth(line) ==
  /\ Contains(StrLower(line), <<"k", "h", "a", "n", " ", "a", "c", "a", "d", "e", "m", "y">>)
  /\ Contains(StrLower(line), <<"b", "i", "l", "l", " ", "t", "o">>)

\* the anchor lines, of which the part before the marker is the vendor, and
\* the lines of letters and white space that have 'khan' in them
AnchorLines ==
  {i \in 1..Len(Stripped) : HasBoth(Stripped[i]) /\ ReSearch(VendorAnchorPattern, Stripped[i]).ok}

StandaloneLines ==
  {i \in 1..Len(Stripped) :
     /\ ~HasBoth(Stripped[i])
     /\ ReMatch(LettersOnlyPattern, Stripped[i]).ok
     /\ Contains(StrLower(Stripped[i]), <<"k", "h", "a", "n">>)}

\* the lines that have the vendor token in them
TokenLines == {i \in 1..Len(TextLines) : Contains(StrLower(TextLines[i]), <<"k", "h", "a", "n", " ", "a", "c", "a", "d", "e", "m", "y">>)}

\* what a line gives: the part before the marker of an anchor line, and a
\* standalone line as it is
LineGives(i) ==
  IF i \in AnchorLines
  THEN Str(Strip(Group(Stripped[i], ReSearch(VendorAnchorPattern, Stripped[i]), 1)))
  ELSE Str(Stripped[i])

\* C13: _extract_vendor_name_alternative goes over the lines once: the first
\* line that is an anchor line or a standalone line gives the vendor name,
\* so that a standalone line before an anchor line is the one that counts;
\* only when no line is one of the two, a line with the vendor token gives
\* the token, 'Khan Academy'
FirstVendorNameLineWins ==
  Returned("_extract_vendor_name_alternative") =>
    IF AnchorLines \cup StandaloneLines # {}
    THEN result = LineGives(First(AnchorLines \cup StandaloneLines))
    ELSE IF TokenLines # {} THEN result = Str(<<"K", "h", "a", "n", " ", "A", "c", "a", "d", "e", "m", "y">>)
    ELSE result = None

\* a standalone line before an anchor line has given the vendor name, which
\* is not the one of the anchor line
FirstVendorNameLineWinsWitness ==
  /\ Returned("_extract_vendor_name_alternative")
  /\ AnchorLines # {}
  /\ StandaloneLines # {}
  /\ First(StandaloneLines) < First(AnchorLines)
  /\ result = LineGives(First(StandaloneLines))
  /\ result # LineGives(First(AnchorLines))

\* C13 as the specification has it: an anchor line anywhere in the text
\* comes before every standalone line, and a standalone line before every
\* other line with the token
VendorNameStrategiesInOrder ==
  Returned("_extract_vendor_name_alternative") =>
    IF AnchorLines # {} THEN result = LineGives(First(AnchorLines))
    ELSE IF StandaloneLines # {} THEN result = LineGives(First(StandaloneLines))
    ELSE IF TokenLines # {} THEN result = Str(<<"K", "h", "a", "n", " ", "A", "c", "a", "d", "e", "m", "y">>)
    ELSE result = None

IngestInit ==
  /\ pdf_path \in PdfPaths
  /\ pages \in Documents
  /\ debug = FALSE
  /\ patterns = Patterns
  /\ now = 0
  /\ text = <<>>
  /\ tables = <<>>
  /\ raw = EmptyDict
  /\ invoice_data = EmptyDict
  /\ result = None
  /\ runs = 1
  /\ prev = None
  /\ exc = None
  /\ call = <<>>
  /\ pc = "call"

CallExtractTextFromPdf ==
  Return(<<"extract_text_from_pdf">>, Str(extract_text_from_pdf(pages)))

CallExtractTablesFromPdf ==
  Return(<<"extract_tables_from_pdf">>, List(extract_tables_from_pdf(pages)))

IngestNext ==
  \/ CallExtractTextFromPdf
  \/ CallExtractTablesFromPdf

SpecIngest == IngestInit /\ [][IngestNext]_vars

\* the text that a page contributes, when its extraction does not fail
TextOfPage(p) ==
  IF pages[p].text_raises \/ pages[p].text = None THEN <<>>
  ELSE IF pages[p].text.v = <<>> THEN <<>>
  ELSE pages[p].text.v \o <<"\n">>

\* the tables that the pages contribute, when their extraction does not
\* fail, by page and number in the page
TablesOfPages ==
  UNION {{<<p, t>> : t \in {u \in 1..Len(pages[p].tables) : pages[p].tables[u] # <<>>}} :
         p \in {q \in 1..Len(pages) : ~pages[q].tables_raise}}

\* C14: extract_text_from_pdf and extract_tables_from_pdf do not raise; a
\* page without text or tables contributes nothing; and when the extraction
\* of a page fails, the pages before it and the pages after it contribute
\* their text and their tables all the same
FailingPageIsSkipped ==
  /\ Returned("extract_text_from_pdf") =>
       /\ ~Raised(result)
       /\ result = Str(Concat([p \in 1..Len(pages) |-> TextOfPage(p)]))
  /\ Returned("extract_tables_from_pdf") =>
       /\ ~Raised(result)
       /\ {<<result.v[i].page, result.v[i].table_number>> : i \in 1..Len(result.v)}
            = TablesOfPages


(***************************************************************************)
(* The totals of an invoice: extract_using_patterns on texts of labelled   *)
(* amounts.                                                                *)
(***************************************************************************)
\* the labels, the separators and the amounts of the lines
SubtotalLabel == <<"S", "u", "b", "t", "o", "t", "a", "l">>

TotalLabel == <<"T", "o", "t", "a", "l">>

Separators == {<<" ", "$">>, <<":", " ", "U", "S", "$">>}

Amounts == {<<"4", "0", ".", "0", "0">>, <<"4", "4", ".", "0", "0">>}

AmountLine(label, sep, amount) == label \o sep \o amount

AmountLines ==
  {AmountLine(label, sep, amount) :
     label \in {SubtotalLabel, TotalLabel}, sep \in Separators, amount \in Amounts}

AmountTexts == {JoinWith(ls, <<"\n">>) : ls \in SeqsUpTo(AmountLines, MaxLines)}

AmountInit ==
  /\ text \in AmountTexts
  /\ tables = <<>>
  /\ Idle

AmountNext == CallExtractUsingPatterns

SpecAmount == AmountInit /\ [][AmountNext]_vars

\* whether line i of the text is the label followed by the amount
Labelled(i, label, amount) ==
  /\ i \in 1..Len(TextLines)
  /\ \E sep \in Separators : TextLines[i] = AmountLine(label, sep, amount)

\* the pairs <<A, B>> of a "Subtotal A" line followed later by a "Total B"
\* line with another amount
SubtotalThenTotal ==
  {ab \in Amounts \X Amounts :
     /\ ab[1] # ab[2]
     /\ \E i, j \in 1..Len(TextLines) :
          i < j /\ Labelled(i, SubtotalLabel, ab[1]) /\ Labelled(j, TotalLabel, ab[2])}

\* C15: for a text with a "Subtotal A" line followed later by a "Total B"
\* line, A other than B, extract_using_patterns gives B for 'total' and A for
\* 'subtotal': the total is never taken from the subtotal's line
TotalNotFromSubtotal ==
  Returned("extract_using_patterns") =>
    \A ab \in SubtotalThenTotal :
      /\ call[2] = "total" => result = Str(ab[2])
      /\ call[2] = "subtotal" => result = Str(ab[1])

=============================================================================
